---- MODULE Spec2Model ----
(***************************************************************************)
(* EdgeQL-to-IR compiler context (edb/lang/edgeql/compiler/context.py):    *)
(* the stack of ContextLevel frames, the per-field share/copy/reset policy *)
(* of the seven ContextSwitchMode transitions, and the path scope tree     *)
(* that the levels point into.                                             *)
(*                                                                         *)
(* Python objects are modelled with identity: a level field that holds a   *)
(* container holds a reference <<d, f>> (the object created for field f by *)
(* the level at stack depth d), and `store` maps each live reference to    *)
(* the container's contents.  Two fields alias exactly when their          *)
(* references are equal.  Objects of a popped level are reclaimed.         *)
(* `roots` counts the scope trees created (irast.new_scope_tree calls),   *)
(* and `meta` is the metadata registry of edgedb/server/meta.py            *)
(* (RealmMeta), which the compiler context never touches.                 *)
(***************************************************************************)
EXTENDS Integers, Sequences, FiniteSets, TLC

VARIABLES stack, store, tree, issued, last, npush, nops, probe, roots, meta

vars == <<stack, store, tree, issued, last, npush, nops, probe, roots,
         meta>>

(* ------------------------------ bounds -------------------------------- *)

MaxPush == 2

MaxOps == 2

MaxDeepPush == 3

(* ------------------------------ values -------------------------------- *)

NEW_MODE == "NEW"

SUBQUERY == "SUBQUERY"

NEWSCOPE == "NEWSCOPE"

NEWSCOPE_TEMP == "NEWSCOPE_TEMP"

NEWFENCE == "NEWFENCE"

NEWFENCE_TEMP == "NEWFENCE_TEMP"

DETACHED == "DETACHED"

PushModes == {SUBQUERY, NEWSCOPE, NEWSCOPE_TEMP, NEWFENCE, NEWFENCE_TEMP, DETACHED}

TempModes == {NEWFENCE_TEMP, NEWSCOPE_TEMP}

FenceModes == {NEWFENCE, NEWFENCE_TEMP}

None == "None"

NoNode == 0

NotFound == "NotFound"

Keys == {"k1"}

Vals == {"S1", "S2"}

Paths == {"x", "y"}

Prefixes == {"ns", "v"}

(* ------------------------------ fields -------------------------------- *)

DictFields == {"anchors", "modaliases", "arguments", "stmt_metadata",
               "source_map", "view_nodes", "view_sets", "view_class_map",
               "class_view_overrides", "class_shapes", "path_scope_map"}

ChainFields == {"aliased_views", "view_map"}

ListFields == {"all_sets"}

SetFields == {"singletons"}

CounterFields == {"aliases", "scope_id_ctr"}

RefFields == DictFields \cup ChainFields \cup ListFields \cup SetFields \cup CounterFields

NoneFields == {"schema", "derived_target_module", "clause", "toplevel_clause",
               "toplevel_stmt", "stmt", "pending_stmt_path_id_namespace",
               "view_scls", "partial_path_prefix", "view_rptr",
               "toplevel_result_view_name"}

BoolFields == {"in_aggregate", "expr_exposed", "path_as_type", "implicit_id_in_shapes"}

ScalarFields == NoneFields \cup BoolFields \cup {"path_id_namespace", "path_scope"}

Fields == RefFields \cup ScalarFields

LayerOf(f) == IF f = "aliased_views" THEN "aliased_views.maps0" ELSE "view_map.maps0"

Ref(d, f) == <<d, f>>

(* --------------------------- container contents ----------------------- *)

Put(c, k, v) == {e \in c : e[1] # k} \cup {<<k, v>>}

Del(c, k) == {e \in c : e[1] # k}

HasKey(c, k) == \E e \in c : e[1] = k

ListAppend(c, v) == c \cup {<<Cardinality(c) + 1, v>>}

CounterVal(c, k) == IF HasKey(c, k) THEN (CHOOSE e \in c : e[1] = k)[2] ELSE 0

(* AliasGenerator.get(prefix): an in-process counter per prefix; the
   identifier is the prefix with the next counter value. *)
AliasGet(c, prefix) == [alias |-> <<prefix, CounterVal(c, prefix) + 1>>,
                        gen |-> Put(c, prefix, CounterVal(c, prefix) + 1)]

(* The contents seen through field f of level lvl: for a ChainMap the
   sequence of its layers' contents, top layer first. *)
View(st, lvl, f) ==
    IF f \in ChainFields
    THEN [i \in 1..Len(st[lvl[f]]) |-> st[st[lvl[f]][i]]]
    ELSE st[lvl[f]]

(* ChainMap lookup: the first layer that has the key decides. *)
RECURSIVE ChainLookup(_, _, _)
ChainLookup(layers, k, i) ==
    IF i > Len(layers) THEN NotFound
    ELSE IF HasKey(layers[i], k) THEN (CHOOSE e \in layers[i] : e[1] = k)[2]
    ELSE ChainLookup(layers, k, i + 1)

(* d.get(k) through field f of level lvl. *)
GetItem(st, lvl, f, k) ==
    IF f \in ChainFields THEN ChainLookup(View(st, lvl, f), k, 1)
    ELSE IF HasKey(st[lvl[f]], k) THEN (CHOOSE e \in st[lvl[f]] : e[1] = k)[2]
    ELSE NotFound

(* ------------------------------ scope tree ---------------------------- *)
(* tree maps the ids of the live nodes to the nodes.  A new node gets an   *)
(* id above every live one; nodes no level can reach are reclaimed.       *)

NewNode(parent, fenced) ==
    [parent |-> parent, children |-> {}, fenced |-> fenced, bindings |-> {}]

MaxNodeId(t) == IF DOMAIN t = {} THEN 0 ELSE CHOOSE n \in DOMAIN t : \A m \in DOMAIN t : m <= n

NextNodeId(t) == MaxNodeId(t) + 1

(* irast.new_scope_tree(): a root node, appended to the node table. *)
NewScopeTree(t) ==
    [n \in DOMAIN t \cup {NextNodeId(t)} |->
        IF n \in DOMAIN t THEN t[n] ELSE NewNode(NoNode, FALSE)]

(* node.attach_fence(): a new fenced node linked as a child of parent. *)
AttachFence(t, parent) ==
    [n \in DOMAIN t \cup {NextNodeId(t)} |->
        IF n = parent THEN [t[n] EXCEPT !.children = @ \cup {NextNodeId(t)}]
        ELSE IF n \in DOMAIN t THEN t[n]
        ELSE NewNode(parent, TRUE)]

RECURSIVE Descendants(_, _)
Descendants(t, n) ==
    t[n].children \cup UNION {Descendants(t, c) : c \in t[n].children}

Subtree(t, n) == {n} \cup Descendants(t, n)

CopyId(t, n, x) == MaxNodeId(t) + Cardinality({y \in Subtree(t, n) : y <= x})

(* node.copy(): a structurally independent duplicate of the subtree rooted
   at n; the duplicate of n has no parent. *)
CopyTree(t, n) ==
    LET S == Subtree(t, n)
        new == {CopyId(t, n, x) : x \in S}
        src(m) == CHOOSE x \in S : CopyId(t, n, x) = m
    IN [m \in DOMAIN t \cup new |->
          IF m \in DOMAIN t THEN t[m]
          ELSE [parent |-> IF src(m) = n THEN NoNode ELSE CopyId(t, n, t[src(m)].parent),
                children |-> {CopyId(t, n, c) : c \in t[src(m)].children},
                fenced |-> t[src(m)].fenced,
                bindings |-> t[src(m)].bindings]]

(* parent.remove_subtree(child): child leaves parent's children. *)
RemoveSubtree(t, parent, child) ==
    [n \in DOMAIN t |->
        IF n = parent THEN [t[n] EXCEPT !.children = @ \ {child}]
        ELSE IF n = child /\ t[n].parent = parent THEN [t[n] EXCEPT !.parent = NoNode]
        ELSE t[n]]

RECURSIVE RootOf(_, _)
RootOf(t, n) == IF t[n].parent = NoNode THEN n ELSE RootOf(t, t[n].parent)

(* The nodes of the trees that the levels of stack s point into. *)
Reachable(t, s) ==
    UNION {Subtree(t, RootOf(t, s[i].path_scope)) :
              i \in {j \in 1..Len(s) : s[j].path_scope # NoNode}}

Reclaim(t, s) == [n \in Reachable(t, s) |-> t[n]]

(* bind(node, path_id, set) *)
BindPath(t, n, p, s) == [t EXCEPT ![n].bindings = Put(@, p, s)]

(* resolve that looks at the starting node only. *)
ResolveUp_OwnOnly(t, n, p, start) ==
    IF HasKey(t[n].bindings, p) THEN (CHOOSE e \in t[n].bindings : e[1] = p)[2]
    ELSE NotFound

(* resolve(node, path_id): the node's own binding, else its ancestors'
   up to and including the nearest fence among them. *)
RECURSIVE ResolveUp(_, _, _, _)
ResolveUp(t, n, p, start) ==
    IF HasKey(t[n].bindings, p) THEN (CHOOSE e \in t[n].bindings : e[1] = p)[2]
    ELSE IF t[n].parent = NoNode THEN NotFound
    ELSE IF t[n].fenced /\ ~start THEN NotFound
    ELSE ResolveUp(t, t[n].parent, p, FALSE)

Resolve(t, n, p) == IF n = NoNode THEN NotFound ELSE ResolveUp(t, n, p, TRUE)

(* --------------------- ContextLevel.__init__ -------------------------- *)
(* How each field of a new level is produced:                             *)
(*   "share" the parent's value (for a container: the same object),       *)
(*   "copy"  a .copy() of the parent's container,                         *)
(*   "child" parent.new_child() of a ChainMap,                            *)
(*   "empty" a new empty container / generator / counter / tuple,         *)
(*   "none"  None, "false" False, "true" True,                            *)
(*   "ns"    the one-element tuple (self.aliases.get('ns'),).             *)

(* Line 208 setting the flag: the root starts inside an aggregate. *)
RootFields_InAggregate ==
    [schema |-> "none", derived_target_module |-> "none", aliases |-> "empty",
     anchors |-> "empty", modaliases |-> "empty", arguments |-> "empty",
     all_sets |-> "empty", stmt_metadata |-> "empty", source_map |-> "empty",
     view_nodes |-> "empty", view_sets |-> "empty", aliased_views |-> "empty",
     view_class_map |-> "empty", class_view_overrides |-> "empty",
     clause |-> "none", toplevel_clause |-> "none", toplevel_stmt |-> "none",
     stmt |-> "none", singletons |-> "empty", path_id_namespace |-> "empty",
     pending_stmt_path_id_namespace |-> "none", view_map |-> "empty",
     class_shapes |-> "empty", path_scope |-> "none", path_scope_map |-> "empty",
     scope_id_ctr |-> "empty", in_aggregate |-> "true", view_scls |-> "none",
     expr_exposed |-> "false", path_as_type |-> "false",
     partial_path_prefix |-> "none", view_rptr |-> "none",
     toplevel_result_view_name |-> "none", implicit_id_in_shapes |-> "true"]

RootFields ==
    [schema |-> "none", derived_target_module |-> "none", aliases |-> "empty",
     anchors |-> "empty", modaliases |-> "empty", arguments |-> "empty",
     all_sets |-> "empty", stmt_metadata |-> "empty", source_map |-> "empty",
     view_nodes |-> "empty", view_sets |-> "empty", aliased_views |-> "empty",
     view_class_map |-> "empty", class_view_overrides |-> "empty",
     clause |-> "none", toplevel_clause |-> "none", toplevel_stmt |-> "none",
     stmt |-> "none", singletons |-> "empty", path_id_namespace |-> "empty",
     pending_stmt_path_id_namespace |-> "none", view_map |-> "empty",
     class_shapes |-> "empty", path_scope |-> "none", path_scope_map |-> "empty",
     scope_id_ctr |-> "empty", in_aggregate |-> "false", view_scls |-> "none",
     expr_exposed |-> "false", path_as_type |-> "false",
     partial_path_prefix |-> "none", view_rptr |-> "none",
     toplevel_result_view_name |-> "none", implicit_id_in_shapes |-> "true"]

(* Line 234 missing from the inherited assignments: the child starts with
   no node. *)
InheritedFields_NoScope ==
    [schema |-> "share", derived_target_module |-> "share", aliases |-> "share",
     arguments |-> "share", all_sets |-> "share", stmt_metadata |-> "share",
     source_map |-> "share", view_nodes |-> "share", view_sets |-> "share",
     path_id_namespace |-> "share", pending_stmt_path_id_namespace |-> "share",
     view_map |-> "share", class_shapes |-> "share", path_scope |-> "none",
     path_scope_map |-> "share", scope_id_ctr |-> "share", view_scls |-> "share",
     expr_exposed |-> "share", toplevel_clause |-> "share",
     toplevel_stmt |-> "share", implicit_id_in_shapes |-> "share"]

(* Line 221 copying the argument map. *)
InheritedFields_CopiedArguments ==
    [schema |-> "share", derived_target_module |-> "share", aliases |-> "share",
     arguments |-> "copy", all_sets |-> "share", stmt_metadata |-> "share",
     source_map |-> "share", view_nodes |-> "share", view_sets |-> "share",
     path_id_namespace |-> "share", pending_stmt_path_id_namespace |-> "share",
     view_map |-> "share", class_shapes |-> "share", path_scope |-> "share",
     path_scope_map |-> "share", scope_id_ctr |-> "share", view_scls |-> "share",
     expr_exposed |-> "share", toplevel_clause |-> "share",
     toplevel_stmt |-> "share", implicit_id_in_shapes |-> "share"]

(* Line 222 taking a copy of the set registry instead of the reference. *)
InheritedFields_CopyAllSets ==
    [schema |-> "share", derived_target_module |-> "share", aliases |-> "share",
     arguments |-> "share", all_sets |-> "copy", stmt_metadata |-> "share",
     source_map |-> "share", view_nodes |-> "share", view_sets |-> "share",
     path_id_namespace |-> "share", pending_stmt_path_id_namespace |-> "share",
     view_map |-> "share", class_shapes |-> "share", path_scope |-> "share",
     path_scope_map |-> "share", scope_id_ctr |-> "share", view_scls |-> "share",
     expr_exposed |-> "share", toplevel_clause |-> "share",
     toplevel_stmt |-> "share", implicit_id_in_shapes |-> "share"]

(* Line 220 giving every level a generator of its own. *)
InheritedFields_OwnAliases ==
    [schema |-> "share", derived_target_module |-> "share", aliases |-> "empty",
     arguments |-> "share", all_sets |-> "share", stmt_metadata |-> "share",
     source_map |-> "share", view_nodes |-> "share", view_sets |-> "share",
     path_id_namespace |-> "share", pending_stmt_path_id_namespace |-> "share",
     view_map |-> "share", class_shapes |-> "share", path_scope |-> "share",
     path_scope_map |-> "share", scope_id_ctr |-> "share", view_scls |-> "share",
     expr_exposed |-> "share", toplevel_clause |-> "share",
     toplevel_stmt |-> "share", implicit_id_in_shapes |-> "share"]

InheritedFields ==
    [schema |-> "share", derived_target_module |-> "share", aliases |-> "share",
     arguments |-> "share", all_sets |-> "share", stmt_metadata |-> "share",
     source_map |-> "share", view_nodes |-> "share", view_sets |-> "share",
     path_id_namespace |-> "share", pending_stmt_path_id_namespace |-> "share",
     view_map |-> "share", class_shapes |-> "share", path_scope |-> "share",
     path_scope_map |-> "share", scope_id_ctr |-> "share", view_scls |-> "share",
     expr_exposed |-> "share", toplevel_clause |-> "share",
     toplevel_stmt |-> "share", implicit_id_in_shapes |-> "share"]

(* Line 246 assigning the parent's registry itself. *)
SubqueryBranch_SharedViews ==
    [anchors |-> "copy", modaliases |-> "copy", aliased_views |-> "share",
     view_class_map |-> "copy", class_view_overrides |-> "copy",
     pending_stmt_path_id_namespace |-> "none", view_rptr |-> "none",
     view_scls |-> "none", clause |-> "none", stmt |-> "none",
     singletons |-> "copy", in_aggregate |-> "false", path_as_type |-> "false",
     partial_path_prefix |-> "none", toplevel_result_view_name |-> "none"]

(* Line 258 missing: the flag stays the parent's. *)
SubqueryBranch_KeepsInAggregate ==
    [anchors |-> "copy", modaliases |-> "copy", aliased_views |-> "child",
     view_class_map |-> "copy", class_view_overrides |-> "copy",
     pending_stmt_path_id_namespace |-> "none", view_rptr |-> "none",
     view_scls |-> "none", clause |-> "none", stmt |-> "none",
     singletons |-> "copy", in_aggregate |-> "share", path_as_type |-> "false",
     partial_path_prefix |-> "none", toplevel_result_view_name |-> "none"]

(* Lines 248-249 starting an empty override map instead of copying. *)
SubqueryBranch_EmptyOverrides ==
    [anchors |-> "copy", modaliases |-> "copy", aliased_views |-> "child",
     view_class_map |-> "copy", class_view_overrides |-> "empty",
     pending_stmt_path_id_namespace |-> "none", view_rptr |-> "none",
     view_scls |-> "none", clause |-> "none", stmt |-> "none",
     singletons |-> "copy", in_aggregate |-> "false", path_as_type |-> "false",
     partial_path_prefix |-> "none", toplevel_result_view_name |-> "none"]

(* Line 244 without the .copy(). *)
SubqueryBranch_SharedAnchors ==
    [anchors |-> "share", modaliases |-> "copy", aliased_views |-> "child",
     view_class_map |-> "copy", class_view_overrides |-> "copy",
     pending_stmt_path_id_namespace |-> "none", view_rptr |-> "none",
     view_scls |-> "none", clause |-> "none", stmt |-> "none",
     singletons |-> "copy", in_aggregate |-> "false", path_as_type |-> "false",
     partial_path_prefix |-> "none", toplevel_result_view_name |-> "none"]

SubqueryBranch ==
    [anchors |-> "copy", modaliases |-> "copy", aliased_views |-> "child",
     view_class_map |-> "copy", class_view_overrides |-> "copy",
     pending_stmt_path_id_namespace |-> "none", view_rptr |-> "none",
     view_scls |-> "none", clause |-> "none", stmt |-> "none",
     singletons |-> "copy", in_aggregate |-> "false", path_as_type |-> "false",
     partial_path_prefix |-> "none", toplevel_result_view_name |-> "none"]

(* Line 276 missing: the DETACHED level keeps the parent's namespace. *)
DetachedBranch_KeepsNamespace ==
    [anchors |-> "copy", modaliases |-> "copy", aliased_views |-> "empty",
     view_class_map |-> "empty", class_view_overrides |-> "empty",
     source_map |-> "empty", view_nodes |-> "empty", view_sets |-> "empty",
     path_id_namespace |-> "share", pending_stmt_path_id_namespace |-> "none",
     view_rptr |-> "none", view_scls |-> "none", clause |-> "none",
     stmt |-> "none", singletons |-> "empty", in_aggregate |-> "false",
     path_as_type |-> "false", partial_path_prefix |-> "none",
     toplevel_result_view_name |-> "none"]

(* Line 269 pushing a layer on the parent's registry as line 246 does. *)
DetachedBranch_ChildViews ==
    [anchors |-> "copy", modaliases |-> "copy", aliased_views |-> "child",
     view_class_map |-> "empty", class_view_overrides |-> "empty",
     source_map |-> "empty", view_nodes |-> "empty", view_sets |-> "empty",
     path_id_namespace |-> "ns", pending_stmt_path_id_namespace |-> "none",
     view_rptr |-> "none", view_scls |-> "none", clause |-> "none",
     stmt |-> "none", singletons |-> "empty", in_aggregate |-> "false",
     path_as_type |-> "false", partial_path_prefix |-> "none",
     toplevel_result_view_name |-> "none"]

(* Line 283 copying the parent's singletons as line 257 does. *)
DetachedBranch_CopiedSingletons ==
    [anchors |-> "copy", modaliases |-> "copy", aliased_views |-> "empty",
     view_class_map |-> "empty", class_view_overrides |-> "empty",
     source_map |-> "empty", view_nodes |-> "empty", view_sets |-> "empty",
     path_id_namespace |-> "ns", pending_stmt_path_id_namespace |-> "none",
     view_rptr |-> "none", view_scls |-> "none", clause |-> "none",
     stmt |-> "none", singletons |-> "copy", in_aggregate |-> "false",
     path_as_type |-> "false", partial_path_prefix |-> "none",
     toplevel_result_view_name |-> "none"]

(* Line 274 missing: view_nodes stays the inherited registry. *)
DetachedBranch_KeepsViewNodes ==
    [anchors |-> "copy", modaliases |-> "copy", aliased_views |-> "empty",
     view_class_map |-> "empty", class_view_overrides |-> "empty",
     source_map |-> "empty", view_sets |-> "empty",
     path_id_namespace |-> "ns", pending_stmt_path_id_namespace |-> "none",
     view_rptr |-> "none", view_scls |-> "none", clause |-> "none",
     stmt |-> "none", singletons |-> "empty", in_aggregate |-> "false",
     path_as_type |-> "false", partial_path_prefix |-> "none",
     toplevel_result_view_name |-> "none"]

(* A DETACHED branch that also starts a set registry of its own. *)
DetachedBranch_OwnAllSets ==
    [anchors |-> "copy", modaliases |-> "copy", aliased_views |-> "empty",
     view_class_map |-> "empty", class_view_overrides |-> "empty",
     source_map |-> "empty", view_nodes |-> "empty", view_sets |-> "empty",
     all_sets |-> "empty",
     path_id_namespace |-> "ns", pending_stmt_path_id_namespace |-> "none",
     view_rptr |-> "none", view_scls |-> "none", clause |-> "none",
     stmt |-> "none", singletons |-> "empty", in_aggregate |-> "false",
     path_as_type |-> "false", partial_path_prefix |-> "none",
     toplevel_result_view_name |-> "none"]

DetachedBranch ==
    [anchors |-> "copy", modaliases |-> "copy", aliased_views |-> "empty",
     view_class_map |-> "empty", class_view_overrides |-> "empty",
     source_map |-> "empty", view_nodes |-> "empty", view_sets |-> "empty",
     path_id_namespace |-> "ns", pending_stmt_path_id_namespace |-> "none",
     view_rptr |-> "none", view_scls |-> "none", clause |-> "none",
     stmt |-> "none", singletons |-> "empty", in_aggregate |-> "false",
     path_as_type |-> "false", partial_path_prefix |-> "none",
     toplevel_result_view_name |-> "none"]

(* Line 292 copying the anchors as the SUBQUERY branch does. *)
ElseBranch_CopiedAnchors ==
    [anchors |-> "copy", modaliases |-> "share", aliased_views |-> "share",
     view_class_map |-> "share", class_view_overrides |-> "share",
     clause |-> "share", stmt |-> "share", in_aggregate |-> "share",
     path_as_type |-> "share", singletons |-> "share",
     partial_path_prefix |-> "share", view_rptr |-> "share",
     toplevel_result_view_name |-> "share"]

ElseBranch ==
    [anchors |-> "share", modaliases |-> "share", aliased_views |-> "share",
     view_class_map |-> "share", class_view_overrides |-> "share",
     clause |-> "share", stmt |-> "share", in_aggregate |-> "share",
     path_as_type |-> "share", singletons |-> "share",
     partial_path_prefix |-> "share", view_rptr |-> "share",
     toplevel_result_view_name |-> "share"]

Branch(mode) ==
    IF mode = SUBQUERY THEN SubqueryBranch
    ELSE IF mode = DETACHED THEN DetachedBranch
    ELSE ElseBranch

(* The branch's assignments come after, and override, the inherited ones. *)
Policy(mode) ==
    IF mode = NEW_MODE THEN RootFields
    ELSE [f \in Fields |->
            IF f \in DOMAIN Branch(mode) THEN Branch(mode)[f] ELSE InheritedFields[f]]

OwnFields(pol) == {f \in RefFields : pol[f] \in {"copy", "child", "empty"}}

NewRefs(pol, d) ==
    {Ref(d, f) : f \in OwnFields(pol)}
      \cup {Ref(d, LayerOf(f)) : f \in OwnFields(pol) \cap ChainFields}

(* The store after the containers of a new level at depth d are created. *)
Allocate(st, prev, pol, d) ==
    [r \in DOMAIN st \cup NewRefs(pol, d) |->
        IF r \notin NewRefs(pol, d) THEN st[r]
        ELSE IF r[2] \notin RefFields THEN {}
        ELSE IF pol[r[2]] = "copy" THEN st[prev[r[2]]]
        ELSE IF pol[r[2]] = "child" THEN <<Ref(d, LayerOf(r[2]))>> \o st[prev[r[2]]]
        ELSE IF r[2] \in ChainFields THEN <<Ref(d, LayerOf(r[2]))>>
        ELSE {}]

FieldValue(prev, pol, d, f, ns) ==
    IF pol[f] = "share" THEN prev[f]
    ELSE IF pol[f] = "ns" THEN <<ns>>
    ELSE IF pol[f] = "false" THEN FALSE
    ELSE IF pol[f] = "true" THEN TRUE
    ELSE IF pol[f] = "none" THEN (IF f = "path_scope" THEN NoNode ELSE None)
    ELSE IF f = "path_id_namespace" THEN << >>
    ELSE Ref(d, f)

(* Lines 312-324 work on a triple: prevlevel.path_scope, self.path_scope
   and the node table. *)
LazyRoot(sc) ==
    IF sc.prev = NoNode
    THEN [prev |-> NextNodeId(sc.tree), self |-> sc.self, tree |-> NewScopeTree(sc.tree)]
    ELSE sc

(* Line 317 with a copy whose root keeps the original's parent link
   without being among that parent's children. *)
TempSnapshot_KeepsParent(mode, sc) ==
    IF mode \in TempModes
    THEN LET s1 == LazyRoot(sc)
             c == CopyId(s1.tree, s1.prev, s1.prev)
         IN [prev |-> s1.prev,
             self |-> c,
             tree |-> [CopyTree(s1.tree, s1.prev) EXCEPT
                          ![c].parent = s1.tree[s1.prev].parent]]
    ELSE sc

(* Line 317 copying the whole tree the parent's node is in: the
   temporary level works on the duplicate of that node inside it. *)
TempSnapshot_WholeTree(mode, sc) ==
    IF mode \in TempModes
    THEN LET s1 == LazyRoot(sc)
         IN [prev |-> s1.prev,
             self |-> CopyId(s1.tree, RootOf(s1.tree, s1.prev), s1.prev),
             tree |-> CopyTree(s1.tree, RootOf(s1.tree, s1.prev))]
    ELSE sc

(* Lines 316-317 without the copy: the temporary level works on the
   parent's own node. *)
TempSnapshot_Alias(mode, sc) ==
    IF mode \in TempModes
    THEN LET s1 == LazyRoot(sc)
         IN [prev |-> s1.prev, self |-> s1.prev, tree |-> s1.tree]
    ELSE sc

TempSnapshot(mode, sc) ==
    IF mode \in TempModes
    THEN LET s1 == LazyRoot(sc)
         IN [prev |-> s1.prev,
             self |-> CopyId(s1.tree, s1.prev, s1.prev),
             tree |-> CopyTree(s1.tree, s1.prev)]
    ELSE sc

(* Lines 321-322 missing: a fence pushed from a level with no node is
   attached to nothing. *)
FenceAttach_NoLazyRoot(mode, sc) ==
    IF mode \in FenceModes
    THEN [prev |-> sc.prev,
          self |-> NextNodeId(sc.tree),
          tree |-> AttachFence(sc.tree, sc.prev)]
    ELSE sc

(* Lines 319-324 attaching nothing: the level stays on the node it has. *)
FenceAttach_NoFence(mode, sc) == sc

(* attach_fence handing back a fenced child the parent already has. *)
FenceAttach_Reuse(mode, sc) ==
    IF mode \in FenceModes
    THEN LET s1 == LazyRoot(sc)
             old == {c \in s1.tree[s1.prev].children : s1.tree[c].fenced}
         IN IF old # {}
            THEN [prev |-> s1.prev,
                  self |-> CHOOSE c \in old : \A e \in old : e <= c,
                  tree |-> s1.tree]
            ELSE [prev |-> s1.prev,
                  self |-> NextNodeId(s1.tree),
                  tree |-> AttachFence(s1.tree, s1.prev)]
    ELSE sc

FenceAttach(mode, sc) ==
    IF mode \in FenceModes
    THEN LET s1 == LazyRoot(sc)
         IN [prev |-> s1.prev,
             self |-> NextNodeId(s1.tree),
             tree |-> AttachFence(s1.tree, s1.prev)]
    ELSE sc

(* on_pop detaching the node of every fenced level as well. *)
OnPop_FencesToo(t, level, prevlevel) ==
    IF level.mode \in TempModes \cup FenceModes
    THEN RemoveSubtree(t, prevlevel.path_scope, level.path_scope)
    ELSE t

(* on_pop removing nothing. *)
OnPop_Nothing(t, level, prevlevel) == t

(* on_pop undoing only the unfenced temporary mode. *)
OnPop_ScopeTempOnly(t, level, prevlevel) ==
    IF level.mode = NEWSCOPE_TEMP
    THEN RemoveSubtree(t, prevlevel.path_scope, level.path_scope)
    ELSE t

(* ContextLevel.on_pop(prevlevel) *)
OnPop(t, level, prevlevel) ==
    IF level.mode \in TempModes
    THEN RemoveSubtree(t, prevlevel.path_scope, level.path_scope)
    ELSE t

(* ------------------- RealmMeta (edgedb/server/meta.py) ---------------- *)
(* A schema object: its qualified name <<module, name>>, with the module  *)
(* a sequence of characters, its _type, its backend and, for an atom,     *)
(* its automatic flag.                                                    *)

ModBuiltin == <<"b", "u", "i", "l", "t", "i", "n">>

ModApp == <<"a", "p", "p">>

ModCaos == <<"c", "a", "o", "s">>

ModCaosLang == <<"c", "a", "o", "s", ".", "l">>

CaosPrefix == <<"c", "a", "o", "s">>

(* str.startswith *)
StartsWith(str, prefix) ==
    Len(str) >= Len(prefix) /\ SubSeq(str, 1, Len(prefix)) = prefix

MetaObject(module, name, type, backend, automatic) ==
    [name |-> <<module, name>>, type |-> type, backend |-> backend,
     automatic |-> automatic]

Objects ==
    {o \in {MetaObject(m, n, t, b, a) :
               m \in {ModBuiltin, ModApp, ModCaos, ModCaosLang}, n \in {"uuid", "A"},
               t \in {"concept", "atom"}, b \in {None, "pg"}, a \in BOOLEAN} :
        o.type = "atom" \/ ~o.automatic}

SeqRange(s) == {s[i] : i \in 1..Len(s)}

(* OrderedSet.add *)
OSetAdd(s, x) == IF x \in SeqRange(s) THEN s ELSE Append(s, x)

(* OrderedDict: membership, d[k] and d[k] = v *)
ODictHas(d, k) == \E i \in 1..Len(d) : d[i][1] = k

ODictGet(d, k) == d[CHOOSE i \in 1..Len(d) : d[i][1] = k][2]

ODictSet(d, k, v) ==
    IF ODictHas(d, k)
    THEN [i \in 1..Len(d) |-> IF d[i][1] = k THEN <<k, v>> ELSE d[i]]
    ELSE Append(d, <<k, v>>)

IndexNames == {"index", "index_by_type", "index_by_name", "index_by_module",
               "index_builtin", "index_automatic", "index_by_backend"}

(* RealmMeta.__init__ up to the call of _init_builtin; raised is the
   outcome of the last add. *)
EmptyRealmMeta ==
    [index |-> << >>,
     index_by_type |-> [t \in {"concept", "atom", "link"} |-> << >>],
     index_by_name |-> << >>,
     index_by_module |-> << >>,
     index_builtin |-> << >>,
     index_automatic |-> << >>,
     index_by_backend |-> {},
     raised |-> "none"]

(* RealmMeta.add(obj) *)
add(m, obj) ==
    IF ODictHas(m.index_by_name, obj.name) THEN [m EXCEPT !.raised = "MetaError"]
    ELSE LET mod == IF ODictHas(m.index_by_module, obj.name[1])
                    THEN m.index_by_module
                    ELSE ODictSet(m.index_by_module, obj.name[1], << >>)
             m1 == [m EXCEPT
                      !.index = OSetAdd(@, obj),
                      !.index_by_type[obj.type] = OSetAdd(@, obj),
                      !.index_by_module =
                          ODictSet(mod, obj.name[1],
                              ODictSet(ODictGet(mod, obj.name[1]), obj.name[2], obj)),
                      !.index_by_name = ODictSet(@, obj.name, obj)]
         IN IF StartsWith(obj.name[1], CaosPrefix) THEN [m1 EXCEPT !.raised = "Exception"]
            ELSE [m1 EXCEPT
                    !.index_by_backend = IF obj.backend # None
                                         THEN Put(@, obj.backend, obj) ELSE @,
                    !.index_builtin = IF obj.name[1] = ModBuiltin
                                      THEN OSetAdd(@, obj) ELSE @,
                    !.index_automatic = IF obj.type = "atom" /\ obj.automatic
                                        THEN OSetAdd(@, obj) ELSE @,
                    !.raised = "none"]

(* RealmMeta(): _init_builtin adds the builtin atoms, the id link and the
   base concept. *)
NewRealmMeta ==
    add(add(add(EmptyRealmMeta,
                MetaObject(ModBuiltin, "uuid", "atom", None, FALSE)),
            MetaObject(ModBuiltin, "id", "link", None, FALSE)),
        MetaObject(ModBuiltin, "Object", "concept", None, FALSE))

(* ------------------------------ levels -------------------------------- *)
(* Besides its fields and its mode a level carries history, recorded when *)
(* it is pushed and never read by an action:                              *)
(*   lid    the level object's identity (push number; 0 for the root),    *)
(*   below  the lid of the level it was pushed from, depth0 the depth     *)
(*          of the stack before the push,                                 *)
(*   snap   the contents seen through the parent's container fields,      *)
(*   res    what each path resolved to from the parent's current node,    *)
(*   node   the parent's current node before the push,                    *)
(*   kids   the children of the parent's current node before the push,    *)
(*   mark   the highest scope-tree node id in use before the push,        *)
(*   own    the parent's non-container field values before the push.      *)

History == {"lid", "below", "depth0", "snap", "res", "node", "kids", "mark", "own"}

MakeLevel(prev, mode, pol, d, ns, scope, hist) ==
    [f \in Fields \cup {"mode"} \cup History |->
        IF f = "mode" THEN mode
        ELSE IF f \in History THEN hist[f]
        ELSE IF f = "path_scope" /\ mode # NEW_MODE THEN scope
        ELSE FieldValue(prev, pol, d, f, ns)]

RootLevel ==
    MakeLevel(<< >>, NEW_MODE, Policy(NEW_MODE), 1, None, NoNode,
              [lid |-> 0, below |-> 0, depth0 |-> 0, snap |-> << >>,
               res |-> << >>, node |-> NoNode, kids |-> {}, mark |-> 0,
               own |-> << >>])

(* A second CompilerContext() holding the first one's containers. *)
PeerRoot_SharedDefaults == RootLevel

(* The root level of a second, independent CompilerContext(): the same
   constructor run again, its containers created at depth 0 of the heap. *)
PeerRoot ==
    MakeLevel(<< >>, NEW_MODE, Policy(NEW_MODE), 0, None, NoNode,
              [lid |-> 0, below |-> 0, depth0 |-> 0, snap |-> << >>,
               res |-> << >>, node |-> NoNode, kids |-> {}, mark |-> 0,
               own |-> << >>])

Top == stack[Len(stack)]

(* The stack is a list of levels: push appends, pop removes the last. *)
PushStack(s, level) == Append(s, level)

(* A pop that removes the level below the top one. *)
PopStack_DropBelow(s) == Append(SubSeq(s, 1, Len(s) - 2), s[Len(s)])

PopStack(s) == SubSeq(s, 1, Len(s) - 1)

(* What the last step was; after a pop, the level it removed, the contents
   that level saw through its container fields and the bindings of its
   current node; after a resolve, the path and the result (history). *)
NoPop == [kind |-> "init", popped |-> << >>, seen |-> << >>, bound |-> {},
          found |-> << >>]

Probes == Fields

(* CompilerContext(): the stack holds one level built with no parent.
   probe is the field that this compilation's operations go through. *)
InitWith(P) ==
    /\ stack = <<RootLevel>>
    /\ store = Allocate(<< >>, << >>, Policy(NEW_MODE), 1)
    /\ tree = << >>
    /\ issued = << >>
    /\ last = NoPop
    /\ npush = 0
    /\ nops = 0
    /\ probe \in P
    /\ roots = 0
    /\ meta = NewRealmMeta

Init == InitWith(Probes)

(* CompilerContext.push(mode): a level is built from the current top and
   becomes the top. *)
PushLevel(mode) ==
    /\ LET prev == Top
           d == Len(stack) + 1
           pol == Policy(mode)
           st1 == Allocate(store, prev, pol, d)
           usesNs == \E f \in Fields : pol[f] = "ns"
           gen == FieldValue(prev, pol, d, "aliases", None)
           ag == AliasGet(st1[gen], "ns")
           sc == FenceAttach(mode, TempSnapshot(mode,
                    [prev |-> prev.path_scope,
                     self |-> FieldValue(prev, pol, d, "path_scope", None),
                     tree |-> tree]))
           hist == [lid |-> npush + 1, below |-> prev.lid, depth0 |-> Len(stack),
                    snap |-> [f \in RefFields |-> View(store, prev, f)],
                    res |-> [p \in Paths |-> Resolve(tree, prev.path_scope, p)],
                    node |-> prev.path_scope,
                    kids |-> IF prev.path_scope = NoNode THEN {}
                             ELSE tree[prev.path_scope].children,
                    mark |-> MaxNodeId(tree),
                    own |-> [f \in ScalarFields \ {"path_scope"} |-> prev[f]]]
           level == MakeLevel(prev, mode, pol, d, ag.alias, sc.self, hist)
       IN /\ stack' = PushStack([stack EXCEPT ![Len(stack)].path_scope = sc.prev], level)
          /\ store' = IF usesNs THEN [st1 EXCEPT ![gen] = ag.gen] ELSE st1
          /\ issued' = IF usesNs THEN Append(issued, ag.alias) ELSE issued
          /\ tree' = Reclaim(sc.tree, stack')
          /\ roots' = IF prev.path_scope = NoNode /\ sc.prev # NoNode
                       THEN roots + 1 ELSE roots
    /\ npush' = npush + 1
    /\ last' = [NoPop EXCEPT !.kind = "push"]
    /\ UNCHANGED <<nops, probe, meta>>

(* A push within the bound on the pushes of a compilation. *)
Push(mode) == npush < MaxPush /\ PushLevel(mode)

(* CompilerContext.pop(): the top level is removed and its on_pop runs
   with the level below it; the containers it created are reclaimed. *)
Pop ==
    /\ Len(stack) > 1
    /\ LET level == Top
           prevlevel == stack[Len(stack) - 1]
       IN /\ stack' = PopStack(stack)
          /\ tree' = Reclaim(OnPop(tree, level, prevlevel), stack')
          /\ store' = [r \in {q \in DOMAIN store : q[1] < Len(stack)} |-> store[r]]
          /\ last' = [kind |-> "pop", popped |-> <<level>>,
                      seen |-> [f \in RefFields |-> View(store, level, f)],
                      bound |-> IF level.path_scope = NoNode THEN {}
                                ELSE tree[level.path_scope].bindings,
                      found |-> << >>]
    /\ UNCHANGED <<issued, npush, nops, probe, roots, meta>>

Used == /\ nops < MaxOps
        /\ nops' = nops + 1
        /\ last' = [NoPop EXCEPT !.kind = "op"]
        /\ UNCHANGED <<npush, probe, roots, meta>>

(* The container a write through field f of the top level lands in: the
   container itself, or maps[0] of a ChainMap. *)
Target(f) == IF f \in ChainFields THEN store[Top[f]][1] ELSE Top[f]

(* d[k] = v through the current level. *)
SetItem ==
    /\ probe \in DictFields \cup ChainFields
    /\ \E k \in Keys, v \in Vals :
          store' = [store EXCEPT ![Target(probe)] = Put(@, k, v)]
    /\ Used
    /\ UNCHANGED <<stack, tree, issued>>

(* del d[k] through the current level (KeyError when k is not there). *)
DelItem ==
    /\ probe \in DictFields \cup ChainFields
    /\ \E k \in Keys :
          /\ HasKey(store[Target(probe)], k)
          /\ store' = [store EXCEPT ![Target(probe)] = Del(@, k)]
    /\ Used
    /\ UNCHANGED <<stack, tree, issued>>

(* all_sets.append(s) *)
AppendSet ==
    /\ probe \in ListFields
    /\ \E v \in Vals : store' = [store EXCEPT ![Top[probe]] = ListAppend(@, v)]
    /\ Used
    /\ UNCHANGED <<stack, tree, issued>>

(* singletons.add(s) / singletons.discard(s) *)
AddSingleton ==
    /\ probe \in SetFields
    /\ \E v \in Vals : store' = [store EXCEPT ![Top[probe]] = Put(@, v, v)]
    /\ Used
    /\ UNCHANGED <<stack, tree, issued>>

DiscardSingleton ==
    /\ probe \in SetFields
    /\ \E v \in Vals :
          /\ HasKey(store[Top[probe]], v)
          /\ store' = [store EXCEPT ![Top[probe]] = Del(@, v)]
    /\ Used
    /\ UNCHANGED <<stack, tree, issued>>

(* ctx.aliases.get(prefix) *)
GetAlias ==
    /\ probe = "aliases"
    /\ \E prefix \in Prefixes :
          LET ag == AliasGet(store[Top.aliases], prefix)
          IN /\ store' = [store EXCEPT ![Top.aliases] = ag.gen]
             /\ issued' = Append(issued, ag.alias)
    /\ Used
    /\ UNCHANGED <<stack, tree>>

(* ctx.scope_id_ctr.nextval() *)
NextScopeId ==
    /\ probe = "scope_id_ctr"
    /\ store' = [store EXCEPT ![Top.scope_id_ctr] = Put(@, "n", CounterVal(@, "n") + 1)]
    /\ Used
    /\ UNCHANGED <<stack, tree, issued>>

ScalarValues(f) ==
    IF f \in BoolFields THEN BOOLEAN
    ELSE IF f = "path_id_namespace" THEN {<< >>, << <<"ns", 0>> >>}
    ELSE {None, "a", "b"}

(* An assignment that lands on every level of the stack, as if the
   levels kept the field in one shared cell. *)
Assign_OnEveryLevel ==
    /\ probe \in ScalarFields \ {"path_scope"}
    /\ probe = "schema" => (Len(stack) = 1 /\ npush = 0)
    /\ \E v \in ScalarValues(probe) :
          /\ v # Top[probe]
          /\ stack' = [i \in 1..Len(stack) |-> [stack[i] EXCEPT ![probe] = v]]
    /\ Used
    /\ UNCHANGED <<store, tree, issued>>

(* ctx.<field> = value on the current level.  The schema handle is fixed
   for the duration of a compile: it is set on the root before any push. *)
Assign ==
    /\ probe \in ScalarFields \ {"path_scope"}
    /\ probe = "schema" => (Len(stack) = 1 /\ npush = 0)
    /\ \E v \in ScalarValues(probe) :
          /\ v # Top[probe]
          /\ stack' = [stack EXCEPT ![Len(stack)][probe] = v]
    /\ Used
    /\ UNCHANGED <<store, tree, issued>>

(* bind(ctx.path_scope, path_id, set) on the current level's node. *)
Bind ==
    /\ probe = "path_scope"
    /\ Top.path_scope # NoNode
    /\ \E p \in Paths, s \in Vals : tree' = BindPath(tree, Top.path_scope, p, s)
    /\ Used
    /\ UNCHANGED <<stack, store, issued>>

Next ==
    \/ \E mode \in PushModes : Push(mode)
    \/ Pop
    \/ SetItem
    \/ DelItem
    \/ AppendSet
    \/ AddSingleton
    \/ DiscardSingleton
    \/ GetAlias
    \/ NextScopeId
    \/ Assign
    \/ Bind

Spec == Init /\ [][Next]_vars

(* Compilations whose operations are binds on the scope tree. *)
NextScope ==
    \/ \E mode \in PushModes : Push(mode)
    \/ Pop
    \/ Bind

SpecScope == InitWith({"path_scope"}) /\ [][NextScope]_vars

(* Compilations whose operations go through one container field, or set
   the schema handle. *)
NextReg ==
    \/ \E mode \in PushModes : Push(mode)
    \/ Pop
    \/ SetItem
    \/ DelItem
    \/ AppendSet
    \/ AddSingleton
    \/ DiscardSingleton
    \/ NextScopeId
    \/ Assign

SpecReg == InitWith((RefFields \ {"aliases"}) \cup {"schema"}) /\ [][NextReg]_vars

(* Compilations whose operations request identifiers. *)
NextAlias ==
    \/ \E mode \in PushModes : Push(mode)
    \/ Pop
    \/ GetAlias

SpecAlias == InitWith({"aliases"}) /\ [][NextAlias]_vars

(* Compilations whose operations are the binds, anchor additions, set
   registrations, singleton additions and identifier requests of a
   speculative level. *)
NextTemp ==
    \/ \E mode \in PushModes : Push(mode)
    \/ Pop
    \/ Bind
    \/ SetItem
    \/ AppendSet
    \/ AddSingleton
    \/ GetAlias

SpecTemp ==
    InitWith({"path_scope", "anchors", "all_sets", "singletons", "aliases"})
      /\ [][NextTemp]_vars

(* Compilations whose operations assign one non-container field. *)
NextScalar ==
    \/ \E mode \in PushModes : Push(mode)
    \/ Pop
    \/ Assign

SpecScalar == InitWith(ScalarFields \ {"path_scope"}) /\ [][NextScalar]_vars

(* ctx.path_scope = irast.new_scope_tree() on the root level, before any
   push: the compilation is given an explicit root scope. *)
NewRootScope ==
    /\ probe = "path_scope"
    /\ Len(stack) = 1
    /\ npush = 0
    /\ Top.path_scope = NoNode
    /\ stack' = [stack EXCEPT ![1].path_scope = NextNodeId(tree)]
    /\ tree' = NewScopeTree(tree)
    /\ roots' = roots + 1
    /\ last' = [NoPop EXCEPT !.kind = "op"]
    /\ UNCHANGED <<store, issued, npush, nops, probe, meta>>

(* resolve(ctx.path_scope, path_id) on the current level's node. *)
Lookup ==
    /\ probe = "path_scope"
    /\ \E p \in Paths :
          last' = [NoPop EXCEPT !.kind = "resolve",
                                !.found = <<p, Resolve(tree, Top.path_scope, p)>>]
    /\ UNCHANGED <<stack, store, tree, issued, npush, nops, probe, roots, meta>>

(* Compilations that start from an explicit or a lazily created root
   scope, bind and resolve. *)
NextResolve ==
    \/ \E mode \in PushModes : Push(mode)
    \/ Pop
    \/ Bind
    \/ NewRootScope
    \/ Lookup

SpecResolve == InitWith({"path_scope"}) /\ [][NextResolve]_vars

(* An error is raised by the compilation inside a pushed level. *)
Raise ==
    /\ Len(stack) > 1
    /\ last.kind # "raise"
    /\ last' = [NoPop EXCEPT !.kind = "raise"]
    /\ UNCHANGED <<stack, store, tree, issued, npush, nops, probe, roots, meta>>

(* A scoped handle that pops on a normal exit only. *)
ExitPops_OnSuccessOnly(failed) == ~failed

(* The exit of a scoped push calls pop() whether the block ended normally
   or with an error. *)
ExitPops(failed) == TRUE

(* The error propagates out of the scoped push of the current level: the
   handle's exit runs, then the error goes on to the enclosing block,
   where it is either caught or propagates further. *)
Unwind ==
    /\ Len(stack) > 1
    /\ last.kind \in {"raise", "unwind"}
    /\ LET level == Top
           prevlevel == stack[Len(stack) - 1]
       IN IF ExitPops(TRUE)
          THEN /\ stack' = PopStack(stack)
               /\ tree' = Reclaim(OnPop(tree, level, prevlevel), stack')
               /\ store' = [r \in {q \in DOMAIN store : q[1] < Len(stack)} |-> store[r]]
               /\ last' = [kind |-> "unwind", popped |-> <<level>>,
                           seen |-> [f \in RefFields |-> View(store, level, f)],
                           bound |-> IF level.path_scope = NoNode THEN {}
                                     ELSE tree[level.path_scope].bindings,
                           found |-> << >>]
          ELSE /\ last' = [NoPop EXCEPT !.kind = "unwind"]
               /\ UNCHANGED <<stack, store, tree>>
    /\ UNCHANGED <<issued, npush, nops, probe, roots, meta>>

(* Compilations in which errors are raised inside levels and propagate;
   after an error nothing runs but the exits it propagates through. *)
NextError ==
    \/ last.kind # "raise" /\ \E mode \in PushModes : Push(mode)
    \/ last.kind # "raise" /\ Pop
    \/ last.kind # "raise" /\ Bind
    \/ Raise
    \/ Unwind

SpecError == InitWith({"path_scope"}) /\ [][NextError]_vars

(* level.new(mode) called on an active level that is not the current one:
   the new level is built from stack[j] and becomes the top. *)
PushFrom(j, mode) ==
    /\ npush < MaxPush
    /\ j \in 1..(Len(stack) - 1)
    /\ LET prev == stack[j]
           d == Len(stack) + 1
           pol == Policy(mode)
           st1 == Allocate(store, prev, pol, d)
           usesNs == \E f \in Fields : pol[f] = "ns"
           gen == FieldValue(prev, pol, d, "aliases", None)
           ag == AliasGet(st1[gen], "ns")
           sc == FenceAttach(mode, TempSnapshot(mode,
                    [prev |-> prev.path_scope,
                     self |-> FieldValue(prev, pol, d, "path_scope", None),
                     tree |-> tree]))
           hist == [lid |-> npush + 1, below |-> prev.lid, depth0 |-> Len(stack),
                    snap |-> [f \in RefFields |-> View(store, prev, f)],
                    res |-> [p \in Paths |-> Resolve(tree, prev.path_scope, p)],
                    node |-> prev.path_scope,
                    kids |-> IF prev.path_scope = NoNode THEN {}
                             ELSE tree[prev.path_scope].children,
                    mark |-> MaxNodeId(tree),
                    own |-> [f \in ScalarFields \ {"path_scope"} |-> prev[f]]]
           level == MakeLevel(prev, mode, pol, d, ag.alias, sc.self, hist)
       IN /\ stack' = PushStack([stack EXCEPT ![j].path_scope = sc.prev], level)
          /\ store' = IF usesNs THEN [st1 EXCEPT ![gen] = ag.gen] ELSE st1
          /\ issued' = IF usesNs THEN Append(issued, ag.alias) ELSE issued
          /\ tree' = Reclaim(sc.tree, stack')
          /\ roots' = IF prev.path_scope = NoNode /\ sc.prev # NoNode
                       THEN roots + 1 ELSE roots
    /\ npush' = npush + 1
    /\ last' = [NoPop EXCEPT !.kind = "push"]
    /\ UNCHANGED <<nops, probe, meta>>

(* on_pop of a temporary level calls remove_subtree on the path_scope of
   the level below it, which is None when that level has no node. *)
PopRaises ==
    /\ Len(stack) > 1
    /\ Top.mode \in TempModes
    /\ stack[Len(stack) - 1].path_scope = NoNode

(* pop() in which on_pop raised: the level is off the stack and the
   compilation is over. *)
PopFails ==
    /\ PopRaises
    /\ last.kind # "error"
    /\ stack' = PopStack(stack)
    /\ last' = [kind |-> "error", popped |-> <<Top>>, seen |-> << >>, bound |-> {},
                found |-> << >>]
    /\ UNCHANGED <<store, tree, issued, npush, nops, probe, roots, meta>>

(* Compilations in which levels are also pushed from levels that are not
   the current one. *)
NextMisuse ==
    \/ last.kind # "error" /\ \E mode \in PushModes : Push(mode)
    \/ last.kind # "error" /\ \E j \in 1..Len(stack), mode \in PushModes : PushFrom(j, mode)
    \/ last.kind # "error" /\ ~PopRaises /\ Pop
    \/ PopFails
    \/ last.kind # "error" /\ Bind

SpecMisuse == InitWith({"path_scope"}) /\ [][NextMisuse]_vars

(* A stack whose top read answers None on an empty stack. *)
StackTop_Lenient(s) ==
    IF s = << >> THEN [outcome |-> "none", lid |-> 0]
    ELSE [outcome |-> "level", lid |-> s[Len(s)].lid]

(* self.stack[-1]: the top level; an index error, which nothing handles,
   when the stack is empty. *)
StackTop(s) ==
    IF s = << >> THEN [outcome |-> "fatal", lid |-> 0]
    ELSE [outcome |-> "level", lid |-> s[Len(s)].lid]

(* pop() of the root level: the stack becomes empty (on_pop of a NEW
   level does nothing). *)
PopRoot ==
    /\ Len(stack) = 1
    /\ stack' = PopStack(stack)
    /\ store' = << >>
    /\ tree' = << >>
    /\ last' = [kind |-> "pop", popped |-> <<Top>>, seen |-> << >>, bound |-> {},
                found |-> << >>]
    /\ UNCHANGED <<issued, npush, nops, probe, roots, meta>>

(* CompilerContext.current *)
Current ==
    /\ last' = [NoPop EXCEPT
                  !.kind = IF StackTop(stack).outcome = "level" THEN "current"
                           ELSE StackTop(stack).outcome,
                  !.found = <<StackTop(stack).lid>>]
    /\ UNCHANGED <<stack, store, tree, issued, npush, nops, probe, roots, meta>>

(* pop() on the empty stack. *)
PopEmpty ==
    /\ stack = << >>
    /\ last' = [NoPop EXCEPT !.kind = StackTop(stack).outcome]
    /\ UNCHANGED <<stack, store, tree, issued, npush, nops, probe, roots, meta>>

(* Compilations that may pop their root level and go on using the
   stack; a fatal outcome ends the compilation. *)
NextEmpty ==
    \/ last.kind # "fatal" /\ stack # << >> /\ \E mode \in PushModes : Push(mode)
    \/ last.kind # "fatal" /\ Pop
    \/ last.kind # "fatal" /\ PopRoot
    \/ last.kind # "fatal" /\ Current
    \/ last.kind # "fatal" /\ PopEmpty

SpecEmpty == InitWith({"path_scope"}) /\ [][NextEmpty]_vars

(* A bind through a level below the top one: the code that entered a
   nested level still holds the enclosing level and its node. *)
BindBelow ==
    /\ probe = "path_scope"
    /\ \E j \in 1..(Len(stack) - 1) :
          /\ stack[j].path_scope # NoNode
          /\ \E p \in Paths, s \in Vals :
                tree' = BindPath(tree, stack[j].path_scope, p, s)
    /\ Used
    /\ UNCHANGED <<stack, store, issued>>

(* Compilations that bind both on the current node and on the nodes of
   the enclosing levels. *)
NextSnapshot ==
    \/ \E mode \in PushModes : Push(mode)
    \/ Pop
    \/ Bind
    \/ BindBelow

SpecSnapshot == InitWith({"path_scope"}) /\ [][NextSnapshot]_vars


(* A push within the larger bound of the compilations that nest three
   levels. *)
PushDeep(mode) == npush < MaxDeepPush /\ PushLevel(mode)

(* Compilations that use only NEWSCOPE, SUBQUERY and NEWFENCE pushes on a
   NEW root, and bind on the current node. *)
NextRoots ==
    \/ \E mode \in {NEWSCOPE, SUBQUERY, NEWFENCE} : PushDeep(mode)
    \/ Pop
    \/ Bind

SpecRoots == InitWith({"path_scope"}) /\ [][NextRoots]_vars


(* ContextLevel.subquery(), newscope(temporary, fenced) and detached():
   the mode each hands to self.new(). *)
subquery == SUBQUERY

(* newscope testing the fenced flag first. *)
newscope_FencedFirst(temporary, fenced) ==
    IF fenced THEN NEWFENCE
    ELSE IF temporary THEN NEWSCOPE_TEMP
    ELSE NEWSCOPE

newscope(temporary, fenced) ==
    IF temporary /\ fenced THEN NEWFENCE_TEMP
    ELSE IF temporary THEN NEWSCOPE_TEMP
    ELSE IF fenced THEN NEWFENCE
    ELSE NEWSCOPE

detached == DETACHED

EnterSubquery == npush < MaxPush /\ PushLevel(subquery)

EnterNewscope(temporary, fenced) ==
    npush < MaxPush /\ PushLevel(newscope(temporary, fenced))

EnterDetached == npush < MaxPush /\ PushLevel(detached)

(* Compilations that enter every level through a convenience
   constructor. *)
NextEnter ==
    \/ EnterSubquery
    \/ \E temporary, fenced \in BOOLEAN : EnterNewscope(temporary, fenced)
    \/ EnterDetached
    \/ Pop
    \/ Bind

SpecEnter == InitWith({"path_scope"}) /\ [][NextEnter]_vars


(* realm.meta.add(obj) for some schema object. *)
MetaAdd ==
    /\ nops < MaxOps
    /\ \E obj \in Objects : meta' = add(meta, obj)
    /\ nops' = nops + 1
    /\ UNCHANGED <<stack, store, tree, issued, last, npush, probe, roots>>

(* The metadata registry of a realm, filled by add. *)
NextMeta == MetaAdd

SpecMeta == InitWith({"schema"}) /\ [][NextMeta]_vars


(* Two CompilerContext() in one process: the second stays on its root
   level, and its operations go through the same field. *)
InitTwo(P) ==
    /\ stack = <<RootLevel>>
    /\ store = Allocate(Allocate(<< >>, << >>, Policy(NEW_MODE), 1),
                        << >>, Policy(NEW_MODE), 0)
    /\ tree = << >>
    /\ issued = << >>
    /\ last = NoPop
    /\ npush = 0
    /\ nops = 0
    /\ probe \in P
    /\ roots = 0
    /\ meta = NewRealmMeta

PeerUsed == /\ nops < MaxOps
            /\ nops' = nops + 1
            /\ last' = [NoPop EXCEPT !.kind = "peer"]
            /\ UNCHANGED <<npush, probe, roots, meta>>

PeerTarget(f) == IF f \in ChainFields THEN store[PeerRoot[f]][1] ELSE PeerRoot[f]

(* d[k] = v through the second compilation's level. *)
PeerSetItem ==
    /\ probe \in DictFields \cup ChainFields
    /\ \E k \in Keys, v \in Vals :
          store' = [store EXCEPT ![PeerTarget(probe)] = Put(@, k, v)]
    /\ PeerUsed
    /\ UNCHANGED <<stack, tree, issued>>

PeerAppendSet ==
    /\ probe \in ListFields
    /\ \E v \in Vals : store' = [store EXCEPT ![PeerRoot[probe]] = ListAppend(@, v)]
    /\ PeerUsed
    /\ UNCHANGED <<stack, tree, issued>>

PeerAddSingleton ==
    /\ probe \in SetFields
    /\ \E v \in Vals : store' = [store EXCEPT ![PeerRoot[probe]] = Put(@, v, v)]
    /\ PeerUsed
    /\ UNCHANGED <<stack, tree, issued>>

PeerGetAlias ==
    /\ probe = "aliases"
    /\ \E prefix \in Prefixes :
          store' = [store EXCEPT ![PeerRoot.aliases] = AliasGet(@, prefix).gen]
    /\ PeerUsed
    /\ UNCHANGED <<stack, tree, issued>>

PeerNextScopeId ==
    /\ probe = "scope_id_ctr"
    /\ store' = [store EXCEPT ![PeerRoot.scope_id_ctr] = Put(@, "n", CounterVal(@, "n") + 1)]
    /\ PeerUsed
    /\ UNCHANGED <<stack, tree, issued>>

NextTwo ==
    \/ \E mode \in PushModes : Push(mode)
    \/ Pop
    \/ SetItem
    \/ AppendSet
    \/ AddSingleton
    \/ GetAlias
    \/ NextScopeId
    \/ PeerSetItem
    \/ PeerAppendSet
    \/ PeerAddSingleton
    \/ PeerGetAlias
    \/ PeerNextScopeId

SpecTwo ==
    InitTwo({"anchors", "aliased_views", "all_sets", "singletons",
             "aliases", "scope_id_ctr"})
      /\ [][NextTwo]_vars

(* ------------------------------ claims -------------------------------- *)

Popped == last.popped[1]

AfterPop(modes) == last.kind = "pop" /\ Popped.mode \in modes

Parent(i) == stack[i - 1]

Levels == 2..Len(stack)

(* C1: every active level still sits directly on the level it was pushed
   from, at the depth it was pushed at; and after a pop the stack depth is
   the depth before the matching push and the current level is the level
   object that was current before that push. *)
C1_PushPopInverse ==
    /\ \A i \in Levels :
          /\ stack[i].depth0 = i - 1
          /\ stack[i].below = Parent(i).lid
    /\ last.kind = "pop" =>
          /\ Len(stack) = Popped.depth0
          /\ Top.lid = Popped.below

(* A level pushed from the root is popped after a level nested in it was
   pushed and popped. *)
C1_Witness ==
    /\ last.kind = "pop"
    /\ Popped.lid = 1
    /\ npush = 2
    /\ Len(stack) = 1

ProcessWide == {"schema", "aliases", "arguments", "all_sets", "stmt_metadata",
                "source_map", "view_nodes", "view_sets", "view_map",
                "class_shapes", "scope_id_ctr"}

NoDetachedUpTo(i) == \A j \in 2..i : stack[j].mode # DETACHED

(* C2: with no DETACHED level involved, every active level holds the root
   level's instance of each process-wide field, and what a popped level
   saw through such a field is what the level below it sees after the pop. *)
C2_ProcessWideShared ==
    /\ \A i \in Levels : NoDetachedUpTo(i) =>
          \A f \in ProcessWide : stack[i][f] = stack[1][f]
    /\ (AfterPop(PushModes \ {DETACHED}) /\ NoDetachedUpTo(Len(stack))) =>
          \A f \in ProcessWide \cap RefFields :
              /\ Top[f] = Popped[f]
              /\ View(store, Top, f) = last.seen[f]

(* A SUBQUERY level appended to the set registry, which was empty when it
   was pushed, and was popped: the entry is in the parent's registry. *)
C2_Witness ==
    /\ AfterPop({SUBQUERY})
    /\ NoDetachedUpTo(Len(stack))
    /\ Popped.snap["all_sets"] = {}
    /\ View(store, Top, "all_sets") # {}

CopyClass == {"anchors", "modaliases", "aliased_views", "view_class_map",
              "class_view_overrides"}

(* C3: while a SUBQUERY level is active, and after it is popped, each
   copy-class field of its parent has the contents it had at the push. *)
C3_SubqueryIsolation ==
    /\ \A i \in Levels : stack[i].mode = SUBQUERY =>
          \A f \in CopyClass : View(store, Parent(i), f) = stack[i].snap[f]
    /\ AfterPop({SUBQUERY}) =>
          \A f \in CopyClass : View(store, Top, f) = Popped.snap[f]

(* A SUBQUERY level deleted, from its copy, an anchor its parent has. *)
C3_Witness ==
    /\ AfterPop({SUBQUERY})
    /\ Popped.snap["anchors"] # {}
    /\ last.seen["anchors"] = {}

(* C4: a NEWSCOPE level and its parent have the same current node, every
   path resolves alike from both, and after the pop the parent's node is
   the node the child bound on. *)
C4_NewscopeSharesNode ==
    /\ \A i \in Levels : stack[i].mode = NEWSCOPE =>
          /\ stack[i].path_scope = Parent(i).path_scope
          /\ \A p \in Paths : Resolve(tree, stack[i].path_scope, p)
                                = Resolve(tree, Parent(i).path_scope, p)
    /\ AfterPop({NEWSCOPE}) => Top.path_scope = Popped.path_scope

(* C5: for an active NEWFENCE level every path resolves from its parent's
   node as it did at the push (nothing bound on or below the fenced node is
   resolvable there), also after the pop; and a path bound on the parent's
   node resolves from the fenced node to the same set, unless the fenced
   node binds that path itself. *)
C5_FenceVisibility ==
    /\ \A i \in Levels : stack[i].mode = NEWFENCE =>
          /\ stack[i].path_scope # Parent(i).path_scope
          /\ \A p \in Paths :
                /\ Resolve(tree, Parent(i).path_scope, p) = stack[i].res[p]
                /\ (/\ HasKey(tree[Parent(i).path_scope].bindings, p)
                    /\ ~HasKey(tree[stack[i].path_scope].bindings, p))
                   => Resolve(tree, stack[i].path_scope, p) = stack[i].res[p]
    /\ AfterPop({NEWFENCE}) =>
          \A p \in Paths : Resolve(tree, Top.path_scope, p) = Popped.res[p]

(* Inside a fence whose parent node binds x: y is bound on the fenced node,
   x resolves from the fenced node and y does not resolve from the parent. *)
C5_Witness ==
    /\ Top.mode = NEWFENCE
    /\ Top.res["x"] = "S1"
    /\ Resolve(tree, Top.path_scope, "x") = "S1"
    /\ Resolve(tree, Top.path_scope, "y") = "S2"
    /\ Resolve(tree, Parent(Len(stack)).path_scope, "y") = NotFound

(* C6: after a temporary level is popped, no node created since its push
   is below the parent's current node, and every path resolves from that
   node as it did at the push. *)
C6_TempDiscarded ==
    AfterPop(TempModes) =>
        /\ \A n \in Descendants(tree, Top.path_scope) : n <= Popped.mark
        /\ \A p \in Paths : Resolve(tree, Top.path_scope, p) = Popped.res[p]

(* A NEWFENCE_TEMP level whose fenced node was bound on has been popped. *)
C6_Witness ==
    /\ AfterPop({NEWFENCE_TEMP})
    /\ last.bound # {}

(* C7: while a NEWFENCE_TEMP level is active its fenced node is not a
   child of the parent's real node, whose children are those it had before
   the push. *)
C7_FenceOnSnapshot ==
    \A i \in Levels : stack[i].mode = NEWFENCE_TEMP =>
        /\ stack[i].path_scope \notin tree[Parent(i).path_scope].children
        /\ tree[Parent(i).path_scope].children = stack[i].kids

DetachedCopied == {"anchors", "modaliases"}

DetachedReset == {"view_nodes", "view_sets", "source_map"}

(* C8: a DETACHED level has its parent's alias generator and schema
   handle; its anchors and module aliases are objects of its own that start
   with the parent's entries; its view-node, view-set and source-map
   registries are objects of its own that start empty; and the parent's
   five fields keep their contents while the level is active and after
   its pop. *)
C8_DetachedFields ==
    /\ \A i \in Levels : stack[i].mode = DETACHED =>
          /\ stack[i].aliases = Parent(i).aliases
          /\ stack[i].schema = Parent(i).schema
          /\ \A f \in DetachedCopied \cup DetachedReset :
                /\ stack[i][f] # Parent(i)[f]
                /\ View(store, Parent(i), f) = stack[i].snap[f]
          /\ (last.kind = "push" /\ i = Len(stack)) =>
                /\ \A f \in DetachedCopied : View(store, stack[i], f) = stack[i].snap[f]
                /\ \A f \in DetachedReset : View(store, stack[i], f) = {}
    /\ AfterPop({DETACHED}) =>
          \A f \in DetachedCopied \cup DetachedReset :
              View(store, Top, f) = Popped.snap[f]

(* A DETACHED level added a view node to its registry and was popped from
   a parent whose registry holds another entry. *)
C8_Witness ==
    /\ AfterPop({DETACHED})
    /\ Popped.snap["view_nodes"] # {}
    /\ last.seen["view_nodes"] # {}
    /\ last.seen["view_nodes"] # Popped.snap["view_nodes"]

DetachedShared == {"aliases", "scope_id_ctr", "all_sets", "arguments",
                   "stmt_metadata", "view_map", "class_shapes", "path_scope_map"}

DetachedOwn == {"anchors", "modaliases", "aliased_views", "view_class_map",
                "class_view_overrides", "source_map", "view_nodes", "view_sets",
                "singletons"}

(* C9 as stated: nothing a DETACHED level does to the set registry, the
   argument map, the statement metadata, the view-translation map, the
   shape map or the per-view scope forest is seen by its parent after the
   pop. *)
C9_DetachedFullyIndependent ==
    AfterPop({DETACHED}) =>
        \A f \in DetachedShared \ {"aliases", "scope_id_ctr"} :
            View(store, Top, f) = Popped.snap[f]

(* C9 amended: a DETACHED level holds its parent's schema handle, alias
   generator, scope-id counter, set registry, argument map, statement
   metadata, view-translation map, shape map and per-view scope forest
   (what it did to them is what the parent sees after the pop) and starts
   on its parent's current node; its anchors, module aliases, aliased
   views, view-class map, overrides, source map, view nodes, view sets and
   singletons are objects of its own, and the parent's keep their contents
   while it is active and after the pop. *)
C9_DetachedSharing ==
    /\ \A i \in Levels : stack[i].mode = DETACHED =>
          /\ stack[i].schema = Parent(i).schema
          /\ \A f \in DetachedShared : stack[i][f] = Parent(i)[f]
          /\ \A f \in DetachedOwn :
                /\ stack[i][f] # Parent(i)[f]
                /\ View(store, Parent(i), f) = stack[i].snap[f]
          /\ (last.kind = "push" /\ i = Len(stack)) =>
                stack[i].path_scope = Parent(i).path_scope
    /\ AfterPop({DETACHED}) =>
          /\ \A f \in DetachedShared : View(store, Top, f) = last.seen[f]
          /\ \A f \in DetachedOwn : View(store, Top, f) = Popped.snap[f]

(* A DETACHED level appended to the set registry and was popped. *)
C9_Witness ==
    /\ AfterPop({DETACHED})
    /\ last.seen["all_sets"] # Popped.snap["all_sets"]
    /\ View(store, Top, "all_sets") = last.seen["all_sets"]

(* C10: the identifiers issued in a compilation are pairwise distinct. *)
C10_AliasesDistinct ==
    \A i, j \in 1..Len(issued) : i # j => issued[i] # issued[j]

(* Two namespaces were issued by DETACHED pushes and two identifiers were
   requested, one of them with the namespace prefix from inside a
   DETACHED level. *)
C10_Witness ==
    /\ Len(issued) = 4
    /\ Cardinality({i \in 1..4 : issued[i][1] = "ns"}) = 3
    /\ \E i \in Levels : stack[i].mode = DETACHED

Observed(st, lvl) == [f \in RefFields |-> View(st, lvl, f)]

(* C11: of two compilations in one process, no container of one is a
   container of the other, no operation, push or pop of the first changes
   what the second sees through its fields, and no operation of the second
   changes what any level of the first sees through its fields. *)
C11_NoSharedState ==
    [][/\ \A i \in 1..Len(stack) : \A f \in RefFields :
             /\ stack[i][f] # PeerRoot[f]
             /\ f \in ChainFields =>
                   \A m \in 1..Len(store[stack[i][f]]), n \in 1..Len(store[PeerRoot[f]]) :
                       store[stack[i][f]][m] # store[PeerRoot[f]][n]
       /\ last'.kind = "peer" =>
             \A i \in 1..Len(stack) : Observed(store', stack[i]) = Observed(store, stack[i])
       /\ last'.kind # "peer" => Observed(store', PeerRoot) = Observed(store, PeerRoot)
      ]_vars

(* Both compilations have an anchor of the same name with different
   values, the first one while inside a pushed level. *)
C11_Witness ==
    /\ Len(stack) = 2
    /\ View(store, PeerRoot, "anchors") = {<<"k1", "S1">>}
    /\ View(store, stack[1], "anchors") = {<<"k1", "S2">>}

JustPushed(i) == last.kind = "push" /\ i = Len(stack)

HasAll(i, f) ==
    \A k \in Keys : GetItem(store, Parent(i), f, k) # NotFound =>
        GetItem(store, stack[i], f, k) = GetItem(store, Parent(i), f, k)

Entries(st, lvl, f) == {k \in Keys : GetItem(st, lvl, f, k) # NotFound}

(* C12 as stated: a SUBQUERY or DETACHED level's anchors, module aliases,
   aliased views and class-view overrides are objects distinct from its
   parent's, and right after the push every entry of the parent's is in
   the child's with the same value. *)
C12_CopiesOnBoth ==
    \A i \in Levels : stack[i].mode \in {SUBQUERY, DETACHED} =>
        \A f \in {"anchors", "modaliases", "aliased_views", "class_view_overrides"} :
            /\ stack[i][f] # Parent(i)[f]
            /\ JustPushed(i) => HasAll(i, f)

(* C12 amended: that holds of the four fields on SUBQUERY and of the
   anchors and module aliases on DETACHED; the aliased views and the
   class-view overrides of a DETACHED level are distinct objects that
   start with no entry. *)
C12_CopiesByMode ==
    \A i \in Levels :
        /\ stack[i].mode = SUBQUERY =>
              \A f \in {"anchors", "modaliases", "aliased_views", "class_view_overrides"} :
                  /\ stack[i][f] # Parent(i)[f]
                  /\ JustPushed(i) => HasAll(i, f)
        /\ stack[i].mode = DETACHED =>
              /\ \A f \in {"anchors", "modaliases"} :
                    /\ stack[i][f] # Parent(i)[f]
                    /\ JustPushed(i) => HasAll(i, f)
              /\ \A f \in {"aliased_views", "class_view_overrides"} :
                    /\ stack[i][f] # Parent(i)[f]
                    /\ JustPushed(i) => Entries(store, stack[i], f) = {}

(* A DETACHED level was just pushed from a level that has a class-view
   override. *)
C12_Witness ==
    /\ JustPushed(Len(stack))
    /\ Top.mode = DETACHED
    /\ Entries(store, Parent(Len(stack)), "class_view_overrides") # {}

ScopeModes == {NEWSCOPE, NEWSCOPE_TEMP, NEWFENCE, NEWFENCE_TEMP}

(* C13: a NEWSCOPE, NEWSCOPE_TEMP, NEWFENCE or NEWFENCE_TEMP level holds
   its parent's anchors, module aliases, aliased views, view-class map and
   class-view overrides themselves, and after its pop the parent sees in
   each of them what the child saw, every entry added through the child
   included. *)
C13_SharedByReference ==
    /\ \A i \in Levels : stack[i].mode \in ScopeModes =>
          \A f \in CopyClass : stack[i][f] = Parent(i)[f]
    /\ AfterPop(ScopeModes) =>
          \A f \in CopyClass :
              /\ Top[f] = Popped[f]
              /\ View(store, Top, f) = last.seen[f]

(* A NEWFENCE_TEMP level added an anchor, none being there at its push,
   and was popped. *)
C13_Witness ==
    /\ AfterPop({NEWFENCE_TEMP})
    /\ Popped.snap["anchors"] = {}
    /\ Entries(store, Top, "anchors") # {}

(* C14 as stated: after a temporary level is popped the parent's current
   node, what every path resolves to from it and the contents of every
   container the parent holds are what they were before the push. *)
C14_FullyUndone ==
    AfterPop(TempModes) =>
        /\ Top.path_scope = Popped.node
        /\ \A p \in Paths : Resolve(tree, Top.path_scope, p) = Popped.res[p]
        /\ \A f \in RefFields : View(store, Top, f) = Popped.snap[f]

(* C14 amended: the pop of a temporary level undoes its scope-tree effects
   only.  Every path resolves from the parent's current node as before the
   push and that node, when the parent had one, is the same node with the
   children it had; the containers of the level are the parent's, and the
   parent sees in them what the level saw at its pop. *)
C14_ScopeUndoneOnly ==
    AfterPop(TempModes) =>
        /\ Top.path_scope # NoNode
        /\ \A p \in Paths : Resolve(tree, Top.path_scope, p) = Popped.res[p]
        /\ Popped.node # NoNode =>
              /\ Top.path_scope = Popped.node
              /\ tree[Top.path_scope].children = Popped.kids
        /\ Popped.node = NoNode => tree[Top.path_scope].children = {}
        /\ \A f \in RefFields :
              /\ Top[f] = Popped[f]
              /\ View(store, Top, f) = last.seen[f]

(* A NEWFENCE_TEMP level pushed from a level that has a node was bound on
   and popped. *)
C14_Witness ==
    /\ AfterPop({NEWFENCE_TEMP})
    /\ Popped.node # NoNode
    /\ last.bound # {}
    /\ probe = "path_scope"

ResetClass == {"clause", "stmt", "in_aggregate", "path_as_type",
               "partial_path_prefix", "view_rptr", "toplevel_result_view_name"}

Default(f) == IF f \in BoolFields THEN FALSE ELSE None

(* C15: right after a SUBQUERY or DETACHED push the clause, statement,
   in-aggregate flag, path-as-type flag, partial-path prefix, view pointer
   descriptor and result-view name of the new level are absent / false;
   right after a push in any other mode each has the parent's value. *)
C15_ResetOrInherited ==
    \A i \in Levels : JustPushed(i) =>
        \A f \in ResetClass :
            stack[i][f] = IF stack[i].mode \in {SUBQUERY, DETACHED}
                          THEN Default(f) ELSE Parent(i)[f]

(* A SUBQUERY level was just pushed from a level that is inside an
   aggregate. *)
C15_Witness ==
    /\ JustPushed(Len(stack))
    /\ Top.mode = SUBQUERY
    /\ Parent(Len(stack)).in_aggregate

(* C16: a SUBQUERY level has a singleton set of its own that starts with
   the parent's members, and the parent's set keeps its members while the
   level is active and after its pop; a DETACHED level starts with an
   empty set of its own; a level of any other mode holds the parent's set
   itself, and the parent has after the pop the members the level saw. *)
C16_SingletonsByMode ==
    /\ \A i \in Levels :
          /\ stack[i].mode = SUBQUERY =>
                /\ stack[i].singletons # Parent(i).singletons
                /\ View(store, Parent(i), "singletons") = stack[i].snap["singletons"]
                /\ JustPushed(i) =>
                      View(store, stack[i], "singletons") = stack[i].snap["singletons"]
          /\ stack[i].mode = DETACHED =>
                /\ stack[i].singletons # Parent(i).singletons
                /\ JustPushed(i) => View(store, stack[i], "singletons") = {}
          /\ stack[i].mode \in ScopeModes =>
                stack[i].singletons = Parent(i).singletons
    /\ AfterPop({SUBQUERY}) =>
          View(store, Top, "singletons") = Popped.snap["singletons"]
    /\ AfterPop(ScopeModes) =>
          View(store, Top, "singletons") = last.seen["singletons"]

(* A DETACHED level was just pushed from a level that has a singleton. *)
C16_Witness ==
    /\ JustPushed(Len(stack))
    /\ Top.mode = DETACHED
    /\ View(store, Parent(Len(stack)), "singletons") # {}

Layers(lvl) == store[lvl.aliased_views]

(* The registry of level i is one new layer, empty at the push, on top of
   the layers of its parent's registry: lookups fall through, and the
   parent's layers keep their contents. *)
LayerPushed(i) ==
    /\ stack[i].aliased_views # Parent(i).aliased_views
    /\ Len(Layers(stack[i])) = Len(Layers(Parent(i))) + 1
    /\ Tail(Layers(stack[i])) = Layers(Parent(i))
    /\ Layers(stack[i])[1] \notin {Layers(Parent(i))[n] : n \in 1..Len(Layers(Parent(i)))}
    /\ View(store, Parent(i), "aliased_views") = stack[i].snap["aliased_views"]
    /\ JustPushed(i) =>
          /\ store[Layers(stack[i])[1]] = {}
          /\ \A k \in Keys : GetItem(store, stack[i], "aliased_views", k)
                               = GetItem(store, Parent(i), "aliased_views", k)

(* C17 as stated: a SUBQUERY or DETACHED level's aliased-view registry is
   a new empty layer on top of its parent's layers, and a level of any
   other mode holds its parent's registry object. *)
C17_LayerOnBoth ==
    \A i \in Levels :
        /\ stack[i].mode \in {SUBQUERY, DETACHED} => LayerPushed(i)
        /\ stack[i].mode \in ScopeModes =>
              stack[i].aliased_views = Parent(i).aliased_views

(* C17 amended: that holds of SUBQUERY; a DETACHED level's registry is a
   new registry of one layer, empty at the push, with none of the parent's
   layers beneath it (no entry of the parent is found through it), and the
   parent's layers keep their contents. *)
C17_LayersByMode ==
    \A i \in Levels :
        /\ stack[i].mode = SUBQUERY => LayerPushed(i)
        /\ stack[i].mode = DETACHED =>
              /\ stack[i].aliased_views # Parent(i).aliased_views
              /\ Len(Layers(stack[i])) = 1
              /\ Layers(stack[i])[1] \notin
                    {Layers(Parent(i))[n] : n \in 1..Len(Layers(Parent(i)))}
              /\ View(store, Parent(i), "aliased_views") = stack[i].snap["aliased_views"]
              /\ JustPushed(i) => Entries(store, stack[i], "aliased_views") = {}
        /\ stack[i].mode \in ScopeModes =>
              stack[i].aliased_views = Parent(i).aliased_views

(* A DETACHED level was just pushed from a SUBQUERY level that declared
   an aliased view: the parent's registry has two layers. *)
C17_Witness ==
    /\ JustPushed(Len(stack))
    /\ Top.mode = DETACHED
    /\ Len(Layers(Parent(Len(stack)))) = 2
    /\ Entries(store, Parent(Len(stack)), "aliased_views") # {}

(* The aliases declared in level i: the keys of its registry's top layer. *)
Declared(i) == {k \in Keys : HasKey(store[Layers(stack[i])[1]], k)}

FoundAtPush(lvl, k) == ChainLookup(lvl.snap["aliased_views"], k, 1)

(* After a SUBQUERY level is popped the level that pushed it finds under
   every alias what it found before the push: an alias declared in the
   popped level is not found, unless the pushing level has one of that
   name itself. *)
HiddenAfterPop ==
    AfterPop({SUBQUERY}) =>
        \A k \in Keys : GetItem(store, Top, "aliased_views", k) = FoundAtPush(Popped, k)

(* A SUBQUERY level pushed right after a SUBQUERY level was popped finds
   under every alias what the parent found before the first was pushed. *)
HiddenFromSibling ==
    (/\ AfterPop({SUBQUERY})
     /\ last'.kind = "push"
     /\ stack'[Len(stack')].mode = SUBQUERY)
    => \A k \in Keys :
          GetItem(store', stack'[Len(stack')], "aliased_views", k) = FoundAtPush(Popped, k)

VisibleInsideAll ==
    \A i \in Levels : stack[i].mode = SUBQUERY =>
        \A j \in i..Len(stack) : \A k \in Declared(i) :
            GetItem(store, stack[j], "aliased_views", k) # NotFound

VisibleInsideAttached ==
    \A i \in Levels : stack[i].mode = SUBQUERY =>
        \A j \in i..Len(stack) :
            (\A m \in (i + 1)..j : stack[m].mode # DETACHED) =>
                \A k \in Declared(i) :
                    GetItem(store, stack[j], "aliased_views", k) # NotFound

(* C18 as stated: an alias declared in an active SUBQUERY level is found
   from every level above it on the stack; after the level is popped it is
   not found from the level that pushed it, nor from a SUBQUERY level that
   level pushes next. *)
C18_AliasScoped ==
    [][VisibleInsideAll' /\ HiddenAfterPop' /\ HiddenFromSibling]_vars

(* C18 amended: the alias is found from every level above the SUBQUERY
   level that no DETACHED push separates from it; the rest as stated. *)
C18_AliasScopedAttached ==
    [][VisibleInsideAttached' /\ HiddenAfterPop' /\ HiddenFromSibling]_vars

(* A SUBQUERY level pushed from the root declared an alias and a
   SUBQUERY level was pushed inside it. *)
C18_Witness ==
    /\ Len(stack) = 3
    /\ stack[2].mode = SUBQUERY
    /\ stack[3].mode = SUBQUERY
    /\ Declared(2) # {}
    /\ Declared(1) = {}

OnePerCompilation == {"schema", "aliases", "arguments", "all_sets",
                      "stmt_metadata", "view_map", "class_shapes", "scope_id_ctr"}

OnePerUnit == {"source_map", "view_nodes", "view_sets", "path_id_namespace"}

(* C19 as stated: every active level holds the root level's instance of
   each of the twelve process-wide fields. *)
C19_OneInstanceEverywhere ==
    \A i \in Levels : \A f \in OnePerCompilation \cup OnePerUnit :
        stack[i][f] = stack[1][f]

(* C19 amended: every active level holds the root level's schema handle,
   alias generator, argument map, set registry, statement metadata,
   view-translation map, shape map and scope-id counter; its source map,
   view nodes, view sets and path-id namespace are its parent's, except
   that a DETACHED level has new ones. *)
C19_OneInstancePerUnit ==
    \A i \in Levels :
        /\ \A f \in OnePerCompilation : stack[i][f] = stack[1][f]
        /\ \A f \in OnePerUnit :
              IF stack[i].mode = DETACHED
              THEN stack[i][f] # Parent(i)[f] /\ stack[i][f] # stack[1][f]
              ELSE stack[i][f] = Parent(i)[f]

(* A level pushed inside a DETACHED level that registered a view node. *)
C19_Witness ==
    /\ Len(stack) = 3
    /\ stack[2].mode = DETACHED
    /\ stack[3].mode # DETACHED
    /\ View(store, Top, "view_nodes") # {}
    /\ View(store, stack[1], "view_nodes") = {}

LazyModes == {NEWFENCE, NEWFENCE_TEMP, NEWSCOPE_TEMP}

(* C20: when a NEWFENCE, NEWFENCE_TEMP or NEWSCOPE_TEMP level was pushed
   from a level that had no node, that level has a node, an unfenced root,
   the pushed level has a node too, for NEWFENCE a fenced child of that
   root, and the parent still has a node after the pop. *)
C20_LazyRoot ==
    /\ \A i \in Levels : (stack[i].mode \in LazyModes /\ stack[i].node = NoNode) =>
          /\ Parent(i).path_scope # NoNode
          /\ Parent(i).path_scope \in DOMAIN tree
          /\ tree[Parent(i).path_scope].parent = NoNode
          /\ ~tree[Parent(i).path_scope].fenced
          /\ stack[i].path_scope \in DOMAIN tree
          /\ stack[i].path_scope # Parent(i).path_scope
          /\ stack[i].mode = NEWFENCE =>
                /\ tree[stack[i].path_scope].parent = Parent(i).path_scope
                /\ tree[stack[i].path_scope].fenced
                /\ stack[i].path_scope \in tree[Parent(i).path_scope].children
    /\ (AfterPop(LazyModes) /\ Popped.node = NoNode) =>
          Top.path_scope \in DOMAIN tree

(* A NEWFENCE level pushed from a NEWSCOPE level that had no node was
   bound on. *)
C20_Witness ==
    /\ Len(stack) = 3
    /\ stack[2].mode = NEWSCOPE
    /\ Top.mode = NEWFENCE
    /\ Top.node = NoNode
    /\ tree[Top.path_scope].bindings # {}

(* The nodes from n up to its root, n first. *)
RECURSIVE Chain(_, _)
Chain(t, n) == IF t[n].parent = NoNode THEN <<n>> ELSE <<n>> \o Chain(t, t[n].parent)

Least(S) == CHOOSE i \in S : \A j \in S : i <= j

(* The nodes resolve may examine from n: n and its ancestors up to and
   including the nearest fence among them. *)
Examined(t, n) ==
    LET c == Chain(t, n)
        fences == {i \in 2..Len(c) : t[c[i]].fenced}
    IN SubSeq(c, 1, IF fences = {} THEN Len(c) ELSE Least(fences))

FirstBinding(t, n, p) ==
    LET e == Examined(t, n)
        hits == {i \in 1..Len(e) : HasKey(t[e[i]].bindings, p)}
    IN IF n = NoNode \/ hits = {} THEN NotFound
       ELSE (CHOOSE b \in t[e[Least(hits)]].bindings : b[1] = p)[2]

(* C21: what resolve returned for a path from the current node is the
   binding on the first node that has one among the node and its
   ancestors up to and including the nearest fence above it, and the
   value 'not found' when none of these binds the path (also when the
   level has no node); it is always a bound set or 'not found'. *)
C21_ResolveNearest ==
    last.kind = "resolve" =>
        /\ last.found[2] = FirstBinding(tree, Top.path_scope, last.found[1])
        /\ last.found[2] \in Vals \cup {NotFound}

(* From a fence inside a fence, a path bound on the root above the outer
   fence was resolved and not found. *)
C21_Witness ==
    /\ last.kind = "resolve"
    /\ Len(stack) = 3
    /\ stack[2].mode = NEWFENCE
    /\ stack[3].mode = NEWFENCE
    /\ HasKey(tree[stack[1].path_scope].bindings, last.found[1])
    /\ last.found[2] = NotFound

AfterUnwind(modes) ==
    last.kind = "unwind" /\ last.popped # << >> /\ Popped.mode \in modes

(* C22: when an error has propagated out of a level, the level has been
   popped: the stack has the depth it had before the level's push and the
   level it was pushed from is current; and when the level was a
   temporary one, its node is not a child of the parent's current node,
   no node created since its push is below that node and every path
   resolves from it as it did at the push. *)
C22_PopOnError ==
    /\ last.kind = "unwind" =>
          /\ last.popped # << >>
          /\ Len(stack) = Popped.depth0
          /\ Top.lid = Popped.below
    /\ AfterUnwind(TempModes) =>
          /\ Popped.path_scope \notin tree[Top.path_scope].children
          /\ \A n \in Descendants(tree, Top.path_scope) : n <= Popped.mark
          /\ \A p \in Paths : Resolve(tree, Top.path_scope, p) = Popped.res[p]

(* An error raised after a bind on the fenced node of a NEWFENCE_TEMP
   level has propagated out of the level. *)
C22_Witness ==
    /\ AfterUnwind({NEWFENCE_TEMP})
    /\ last.bound # {}

(* C23: a pop of a temporary level for which the level below it on the
   stack is not the level it was pushed from ends in an error. *)
C23_MismatchAborts ==
    (/\ last.kind \in {"pop", "error"}
     /\ last.popped # << >>
     /\ Popped.mode \in TempModes
     /\ Popped.below # Top.lid)
    => last.kind = "error"

(* C24: every operation on the empty stack ends in the fatal outcome and
   leaves the stack empty, a level is returned by current() only from a
   stack that has one, and nothing runs after a fatal outcome. *)
C24_EmptyStackFatal ==
    [][/\ stack = << >> => (last'.kind = "fatal" /\ stack' = << >>)
       /\ last'.kind = "current" =>
             (stack # << >> /\ last'.found = <<stack[Len(stack)].lid>>)
       /\ last.kind # "fatal"
      ]_vars

(* current() was read, or pop() called, after the root level had been
   popped. *)
C24_Witness ==
    /\ stack = << >>
    /\ last.kind = "fatal"

(* The nodes a step may detach: the subtree of the node of a temporary
   level that the step pops. *)
Unwound ==
    IF last'.kind = "pop" /\ last'.popped[1].mode \in TempModes
    THEN Subtree(tree, last'.popped[1].path_scope)
    ELSE {}

(* C25: no step detaches a fenced node from its parent or changes the
   bindings of a fenced node other than the current one, except that the
   pop of a temporary level removes that level's subtree: a node attached
   by a NEWFENCE push stays a child of the node it was attached to, with
   its bindings, through the pop of its level and every later push and pop
   that does not unwind a temporary level around it. *)
C25_FenceNeverRemoved ==
    [][\A p \in DOMAIN tree \cap DOMAIN tree' :
          \A n \in tree[p].children \ Unwound :
              tree[n].fenced =>
                  /\ n \in DOMAIN tree'
                  /\ n \in tree'[p].children
                  /\ tree'[n].parent = p
                  /\ tree'[n].fenced
                  /\ n # Top.path_scope => tree'[n].bindings = tree[n].bindings
      ]_vars

(* A NEWFENCE level whose node was bound on has been popped, and the node
   is a child of the parent's node with those bindings. *)
C25_Witness ==
    /\ AfterPop({NEWFENCE})
    /\ last.bound # {}
    /\ Popped.path_scope \in tree[Top.path_scope].children
    /\ tree[Popped.path_scope].bindings = last.bound

PlainModes == {NEWSCOPE, SUBQUERY, DETACHED}

(* C26: a NEWSCOPE, SUBQUERY or DETACHED push leaves the node table and
   the parent's current node as they are and puts the new level on the
   parent's current node (on none if the parent has none); the pop of
   such a level creates no node, leaves every node of the parent's tree
   as it is, and leaves the parent on the node it had before the push. *)
C26_NoScopeEffect ==
    [][/\ (last'.kind = "push" /\ stack'[Len(stack')].mode \in PlainModes) =>
             /\ tree' = tree
             /\ stack'[Len(stack)].path_scope = Top.path_scope
             /\ stack'[Len(stack')].path_scope = Top.path_scope
       /\ (last'.kind = "pop" /\ last'.popped[1].mode \in PlainModes) =>
             /\ DOMAIN tree' \subseteq DOMAIN tree
             /\ stack'[Len(stack')].path_scope = stack[Len(stack) - 1].path_scope
             /\ stack'[Len(stack')].path_scope = last'.popped[1].node
             /\ stack[Len(stack) - 1].path_scope # NoNode =>
                   \A n \in Subtree(tree, RootOf(tree, stack[Len(stack) - 1].path_scope)) :
                       n \in DOMAIN tree' /\ tree'[n] = tree[n]
      ]_vars

(* A NEWSCOPE level pushed from a level that has a node bound a path on
   that node and was popped. *)
C26_Witness ==
    /\ AfterPop({NEWSCOPE})
    /\ Popped.node # NoNode
    /\ Popped.path_scope = Popped.node
    /\ last.bound # {}
    /\ tree[Top.path_scope].bindings = last.bound

(* The children the parent's node had when level i was pushed. *)
OlderSiblings(i) == stack[i].kids

(* C27: the node of a level pushed in NEWFENCE mode did not exist before
   the push, is a fence, is the node of no level below, and is a child
   of the parent level's current node; it is distinct from every child
   the parent's node had before the push, these stay children of the
   same node, and a path bound on one of them resolves from the new
   node only to what the new node or the parent's node resolve it to,
   as a path bound on the new node does from them. *)
C27_FreshFence ==
    \A i \in 2..Len(stack) :
        stack[i].mode = NEWFENCE =>
            LET n == stack[i].path_scope
                par == Parent(i).path_scope
            IN /\ n # NoNode /\ par # NoNode
               /\ n > stack[i].mark
               /\ \A j \in 1..(i - 1) : stack[j].path_scope # n
               /\ tree[n].fenced
               /\ tree[n].parent = par
               /\ n \in tree[par].children
               /\ JustPushed(i) => tree[n].bindings = {} /\ tree[n].children = {}
               /\ \A m \in OlderSiblings(i) :
                     /\ m # n
                     /\ m \in tree[par].children
                     /\ tree[m].parent = par
                     /\ \A p \in Paths :
                           /\ (~HasKey(tree[n].bindings, p) /\ Resolve(tree, par, p) = NotFound)
                                 => Resolve(tree, n, p) = NotFound
                           /\ (~HasKey(tree[m].bindings, p) /\ Resolve(tree, par, p) = NotFound)
                                 => Resolve(tree, m, p) = NotFound

(* The second of two fences pushed by the same level: each binds a path
   that does not resolve from the other. *)
C27_Witness ==
    /\ Len(stack) = 2
    /\ Top.mode = NEWFENCE
    /\ \E m \in OlderSiblings(2) :
          /\ tree[m].fenced
          /\ \E p \in Paths : HasKey(tree[m].bindings, p)
                              /\ Resolve(tree, Top.path_scope, p) = NotFound
          /\ \E p \in Paths : HasKey(tree[Top.path_scope].bindings, p)
                              /\ Resolve(tree, m, p) = NotFound

(* The subtrees at a and at b have the same shape: equal fence flags and
   bindings, and children that pair up one to one in the same way. *)
RECURSIVE SameSubtree(_, _, _)
SameSubtree(t, a, b) ==
    /\ t[a].fenced = t[b].fenced
    /\ t[a].bindings = t[b].bindings
    /\ Cardinality(t[a].children) = Cardinality(t[b].children)
    /\ \E f \in [t[a].children -> t[b].children] :
          /\ \A c, e \in t[a].children : f[c] = f[e] => c = e
          /\ \A c \in t[a].children : SameSubtree(t, c, f[c])

(* C28: right after a NEWSCOPE_TEMP push the new level's node is a node
   that did not exist before, shares no node with the parent's subtree,
   and has a subtree of the same shape as the parent's node; while the
   level is the top one, a bind on its node leaves what every path
   resolves to from the parent's node as it was, and a bind on the
   parent's node leaves the copy's nodes and what every path resolves to
   from the copy as they were. *)
C28_SnapshotIsCopy ==
    [][/\ (last'.kind = "push" /\ stack'[Len(stack')].mode = NEWSCOPE_TEMP) =>
             LET n == stack'[Len(stack')].path_scope
                 par == stack'[Len(stack)].path_scope
             IN /\ n # NoNode /\ par # NoNode
                /\ n # par
                /\ n \notin DOMAIN tree
                /\ Subtree(tree', n) \cap Subtree(tree', par) = {}
                /\ SameSubtree(tree', par, n)
                /\ (Top.path_scope # NoNode) =>
                      /\ par = Top.path_scope
                      /\ \A m \in Subtree(tree, par) : tree'[m] = tree[m]
       /\ (Len(stack) > 1 /\ Top.mode = NEWSCOPE_TEMP /\ stack' = stack) =>
             LET n == Top.path_scope
                 par == stack[Len(stack) - 1].path_scope
             IN /\ tree'[n] # tree[n] =>
                      \A p \in Paths : Resolve(tree', par, p) = Resolve(tree, par, p)
                /\ tree'[par] # tree[par] =>
                      /\ \A m \in Subtree(tree, n) : tree'[m] = tree[m]
                      /\ \A p \in Paths : Resolve(tree', n, p) = Resolve(tree, n, p)
      ]_vars

(* A NEWSCOPE_TEMP level copied a node that has a fenced child; then a
   path was bound on the copy and does not resolve from the parent's
   node, and another was bound on the parent's node and does not resolve
   from the copy. *)
C28_Witness ==
    /\ Len(stack) = 2
    /\ Top.mode = NEWSCOPE_TEMP
    /\ tree[Top.path_scope].children # {}
    /\ \E p \in Paths : /\ HasKey(tree[Top.path_scope].bindings, p)
                        /\ Resolve(tree, stack[1].path_scope, p) = NotFound
    /\ \E p \in Paths : /\ HasKey(tree[stack[1].path_scope].bindings, p)
                        /\ Resolve(tree, Top.path_scope, p) = NotFound

IssuedSet(s) == {s[k] : k \in 1..Len(s)}

(* The namespace of a DETACHED level: one identifier with prefix 'ns'
   that the generator issued exactly once, and no pending namespace. *)
OwnNamespace(lvl, s) ==
    /\ Len(lvl.path_id_namespace) = 1
    /\ lvl.path_id_namespace[1][1] = "ns"
    /\ Cardinality({k \in 1..Len(s) : s[k] = lvl.path_id_namespace[1]}) = 1
    /\ lvl.pending_stmt_path_id_namespace = None

(* C29: a DETACHED push requests one identifier with prefix 'ns' from the
   generator the parent uses, not issued before, and the new level's
   path-id namespace is that identifier alone, whatever the parent's
   namespace is; its pending statement namespace is absent; the
   namespaces of the DETACHED levels on the stack and of the one just
   popped are pairwise different; the push and the pop leave the
   parent's namespace as it was. *)
C29_DetachedNamespace ==
    [][/\ \A i \in 2..Len(stack') :
             stack'[i].mode = DETACHED =>
                /\ OwnNamespace(stack'[i], issued')
                /\ stack'[i].aliases = stack'[i - 1].aliases
                /\ \A j \in 2..Len(stack') :
                      (j # i /\ stack'[j].mode = DETACHED) =>
                          stack'[j].path_id_namespace # stack'[i].path_id_namespace
                /\ (last'.kind = "pop" /\ last'.popped[1].mode = DETACHED) =>
                      last'.popped[1].path_id_namespace # stack'[i].path_id_namespace
       /\ (last'.kind = "push" /\ stack'[Len(stack')].mode = DETACHED) =>
             /\ stack'[Len(stack')].path_id_namespace[1] \notin IssuedSet(issued)
             /\ issued' = Append(issued, stack'[Len(stack')].path_id_namespace[1])
             /\ stack'[Len(stack)].path_id_namespace = Top.path_id_namespace
       /\ (last'.kind = "pop" /\ last'.popped[1].mode = DETACHED) =>
             /\ OwnNamespace(last'.popped[1], issued')
             /\ stack'[Len(stack')].path_id_namespace
                   = stack[Len(stack) - 1].path_id_namespace
      ]_vars

(* A DETACHED level inside a DETACHED level, after an identifier with
   the namespace prefix was requested directly. *)
C29_Witness ==
    /\ Len(stack) = 3
    /\ stack[2].mode = DETACHED
    /\ stack[3].mode = DETACHED
    /\ stack[2].path_id_namespace # << >>
    /\ \E k \in 1..Len(issued) :
          /\ issued[k][1] = "ns"
          /\ \A i \in Levels : <<issued[k]>> # stack[i].path_id_namespace

RootRegistries ==
    {"anchors", "modaliases", "arguments", "all_sets", "stmt_metadata",
     "source_map", "view_nodes", "view_sets", "aliased_views",
     "view_class_map", "class_view_overrides", "singletons", "path_scope_map"}

(* C30: when the context has just been constructed its only level is a
   NEW root whose anchors, module aliases, arguments, set registry,
   statement metadata, source map, view nodes, view sets, aliased views,
   view-class map, overrides, singletons and per-view scope forest are
   empty containers of their own, whose path-id namespace is the empty
   tuple, whose alias generator and scope-id counter have issued
   nothing, which has no scope-tree node, no clause and no statement,
   and whose in-aggregate and path-as-type flags are false. *)
C30_RootStartsEmpty ==
    last.kind = "init" =>
        /\ Len(stack) = 1
        /\ Top.mode = NEW_MODE
        /\ \A f \in RootRegistries :
              /\ Top[f] \in DOMAIN store
              /\ IF f \in ChainFields
                 THEN View(store, Top, f) = <<{}>>
                 ELSE View(store, Top, f) = {}
              /\ \A g \in RefFields \ {f} : Top[g] # Top[f]
        /\ Top.path_id_namespace = << >>
        /\ store[Top.aliases] = {}
        /\ \A prefix \in Prefixes : AliasGet(store[Top.aliases], prefix).alias = <<prefix, 1>>
        /\ issued = << >>
        /\ store[Top.scope_id_ctr] = {}
        /\ Top.aliases # Top.scope_id_ctr
        /\ Top.path_scope = NoNode
        /\ tree = << >>
        /\ \A f \in {"clause", "toplevel_clause", "stmt", "toplevel_stmt"} : Top[f] = None
        /\ Top.in_aggregate = FALSE
        /\ Top.path_as_type = FALSE

(* A context right after construction, before any push or operation. *)
C30_Witness ==
    /\ last.kind = "init"
    /\ stack = <<RootLevel>>
    /\ npush = 0
    /\ nops = 0
    /\ DOMAIN store = NewRefs(RootFields, 1)

(* C31: whenever a NEWSCOPE_TEMP or NEWFENCE_TEMP level is popped, the
   node on_pop hands to remove_subtree, the popped level's current node,
   is at that moment a child of the node it is removed from, the current
   node of the level below: it is among that node's children and its
   parent link names that node. *)
C31_DetachesChild ==
    [][(Len(stack) > 1 /\ Top.mode \in TempModes /\ last'.kind = "pop") =>
          /\ stack[Len(stack) - 1].path_scope # NoNode
          /\ Top.path_scope \in tree[stack[Len(stack) - 1].path_scope].children
          /\ tree[Top.path_scope].parent = stack[Len(stack) - 1].path_scope
      ]_vars

(* C32 as stated: right after a NEWSCOPE_TEMP push every path that
   resolves from the parent level's current node, through its own
   bindings or through its ancestors up to the nearest fence, resolves
   from the new level's node to the same set. *)
C32_SnapshotResolvesSame ==
    \A i \in Levels :
        (JustPushed(i) /\ stack[i].mode = NEWSCOPE_TEMP) =>
            \A p \in Paths :
                Resolve(tree, Parent(i).path_scope, p) # NotFound =>
                    Resolve(tree, stack[i].path_scope, p)
                        = Resolve(tree, Parent(i).path_scope, p)

(* C32: right after a NEWSCOPE_TEMP push every path bound on the parent
   level's current node itself resolves from the new level's node to the
   same set, and a path that node does not bind itself does not resolve
   from the new level's node, whatever the ancestors of the parent's
   node bind: the copy has no parent. *)
C32_SnapshotResolvesOwn ==
    \A i \in Levels :
        (JustPushed(i) /\ stack[i].mode = NEWSCOPE_TEMP) =>
            /\ tree[stack[i].path_scope].parent = NoNode
            /\ \A p \in Paths :
                  Resolve(tree, stack[i].path_scope, p)
                      = IF HasKey(tree[Parent(i).path_scope].bindings, p)
                        THEN Resolve(tree, Parent(i).path_scope, p)
                        ELSE NotFound

(* A NEWSCOPE_TEMP level was just pushed from a fenced level whose node
   binds one path and whose parent node binds another: the first
   resolves from the copy, the second only from the parent's node. *)
C32_Witness ==
    /\ Len(stack) = 3
    /\ JustPushed(3)
    /\ Top.mode = NEWSCOPE_TEMP
    /\ \E p \in Paths : /\ HasKey(tree[stack[2].path_scope].bindings, p)
                        /\ Resolve(tree, Top.path_scope, p) # NotFound
    /\ \E p \in Paths : /\ ~HasKey(tree[stack[2].path_scope].bindings, p)
                        /\ Resolve(tree, stack[2].path_scope, p) # NotFound
                        /\ Resolve(tree, Top.path_scope, p) = NotFound

(* C33: in a compilation that uses only NEW, NEWSCOPE, SUBQUERY and
   NEWFENCE pushes at most one scope tree is ever created, and the nodes
   of all the levels that have one are in the tree of one root. *)
C33_OneRoot ==
    /\ roots <= 1
    /\ \A i, j \in 1..Len(stack) :
          (stack[i].path_scope # NoNode /\ stack[j].path_scope # NoNode) =>
              RootOf(tree, stack[i].path_scope) = RootOf(tree, stack[j].path_scope)

PrivateScalars ==
    {"clause", "stmt", "in_aggregate", "path_as_type", "partial_path_prefix",
     "view_rptr", "toplevel_result_view_name", "path_id_namespace",
     "toplevel_stmt", "toplevel_clause"}

(* C34: for a level pushed in any mode, the parent's clause, statement,
   in-aggregate flag, path-as-type flag, partial-path prefix, view
   pointer descriptor, result-view name, path-id namespace, top-level
   statement and top-level clause keep the values they had before the
   push while the level is active, whatever is assigned through the
   level, and after the pop the current level has those values. *)
C34_ScalarsPrivate ==
    /\ \A i \in Levels : \A f \in PrivateScalars : Parent(i)[f] = stack[i].own[f]
    /\ AfterPop(PushModes) => \A f \in PrivateScalars : Top[f] = Popped.own[f]

(* A level whose parent had assigned the field assigned it another value
   and was popped. *)
C34_Witness ==
    /\ AfterPop(PushModes)
    /\ probe \in PrivateScalars
    /\ nops = 2
    /\ Len(stack) = 1
    /\ Popped.own[probe] # RootLevel[probe]
    /\ Popped[probe] # Popped.own[probe]
    /\ Top[probe] = Popped.own[probe]

(* The node k parent links above n, or the root if that comes first. *)
RECURSIVE Up(_, _, _)
Up(t, n, k) == IF k = 0 \/ t[n].parent = NoNode THEN n ELSE Up(t, t[n].parent, k - 1)

(* C35: the current node of every active level is absent or a node of
   the node table, and the nodes reachable from the levels form trees:
   parent links and children name live nodes, a node is among the
   children of a node exactly when its parent link names that node (so
   it is a child of at most one node), and following the parent links
   from any node ends at a root. *)
C35_WellFormed ==
    /\ \A i \in 1..Len(stack) :
          stack[i].path_scope = NoNode \/ stack[i].path_scope \in DOMAIN tree
    /\ NoNode \notin DOMAIN tree
    /\ \A n \in DOMAIN tree :
          /\ tree[n].parent \in DOMAIN tree \cup {NoNode}
          /\ tree[n].children \subseteq DOMAIN tree
          /\ \A m \in DOMAIN tree : n \in tree[m].children <=> tree[n].parent = m
    /\ (\A n \in DOMAIN tree : tree[n].parent \in DOMAIN tree \cup {NoNode}) =>
          \A n \in DOMAIN tree :
              tree[Up(tree, n, Cardinality(DOMAIN tree))].parent = NoNode

(* A temporary level pushed from a fenced level bound a path and was
   popped: the fenced level's node is still a child of the root. *)
C35_Witness ==
    /\ AfterPop(TempModes)
    /\ Len(stack) = 2
    /\ Top.mode = NEWFENCE
    /\ last.bound # {}
    /\ tree[Top.path_scope].parent = stack[1].path_scope
    /\ Cardinality(DOMAIN tree) = 2

(* C36: a level entered with subquery() is a SUBQUERY level, one entered
   with detached() a DETACHED level, and one entered with
   newscope(temporary, fenced) a NEWFENCE_TEMP level when both flags are
   set, a NEWSCOPE_TEMP level when only temporary is, a NEWFENCE level
   when only fenced is and a NEWSCOPE level when neither is; each call
   pushes exactly one level. *)
C36_ConstructorModes ==
    [][/\ EnterSubquery => stack'[Len(stack')].mode = "SUBQUERY"
       /\ EnterDetached => stack'[Len(stack')].mode = "DETACHED"
       /\ EnterNewscope(TRUE, TRUE) => stack'[Len(stack')].mode = "NEWFENCE_TEMP"
       /\ EnterNewscope(TRUE, FALSE) => stack'[Len(stack')].mode = "NEWSCOPE_TEMP"
       /\ EnterNewscope(FALSE, TRUE) => stack'[Len(stack')].mode = "NEWFENCE"
       /\ EnterNewscope(FALSE, FALSE) => stack'[Len(stack')].mode = "NEWSCOPE"
       /\ (EnterSubquery \/ EnterDetached
             \/ \E temporary, fenced \in BOOLEAN : EnterNewscope(temporary, fenced)) =>
             /\ Len(stack') = Len(stack) + 1
             /\ SubSeq(stack', 1, Len(stack) - 1) = SubSeq(stack, 1, Len(stack) - 1)
      ]_vars

(* newscope(temporary=True, fenced=True) was called inside a level
   entered with newscope(temporary=True). *)
C36_Witness ==
    /\ JustPushed(3)
    /\ stack[2].mode = NEWSCOPE_TEMP
    /\ stack[3].mode = NEWFENCE_TEMP
    /\ stack[3].node = stack[2].path_scope

(* C37: whenever add(obj) raises, every index of the registry is what it
   was before the call. *)
C37_AddAtomic ==
    [][(nops' = nops + 1 /\ meta'.raised # "none") =>
          \A f \in IndexNames : meta'[f] = meta[f]
      ]_vars

====
